---- MODULE Spec2Model ----
(***************************************************************************)
(* SMDR receiver: the ingest listener (smdr/server.py SMDRServer), the      *)
(* service's queue worker and daily log (smdr_service.py SMDRService) and   *)
(* the viewer broadcast relay (smdr_service.py ViewerBroadcastServer).      *)
(***************************************************************************)
EXTENDS Integers, Sequences, FiniteSets, TLC

\* ------------------------------------------------------------------ bounds
MaxCalls == 2        \* calls of SMDRServer.start and stop by the controlling thread
MaxConns == 1        \* ingest connections made to the listener
MaxSources == 2      \* ingest connections feeding the worker at once
MaxStreamLen == 3    \* bytes of an enumerated ingest stream
OrderChunks == 3     \* callback invocations of all sources, ordering scenario
RelayChunks == 1     \* callback invocations, relay scenarios
MaxViewers == 2      \* viewer connections to the relay
MaxDay == 2          \* local dates 1..MaxDay
MaxWriteFails == 1   \* log writes that raise
MaxFallbackLen == 2  \* bytes of a stream in the decode fallback scenario
MaxConnects == 2     \* connections the viewer program makes to the relay
PollChunks == 3      \* callback invocations, file polling scenario

Ports == 1..2       \* the TCP ports P and Q of the claims; 0 asks for an ephemeral port
\* The socket (and accept thread) of call number k is k; MaxCalls + 1 is the
\* socket of a start() made before the calls that are counted.
SockIds == 1..(MaxCalls + 1)
ConnIds == 1..(IF MaxConns > MaxSources THEN MaxConns ELSE MaxSources)
ViewerIds == 1..MaxViewers
NetThreads == 1..MaxConnects
Days == 1..MaxDay
NoSock == 0
NoThread == 0

Min(a, b) == IF a < b THEN a ELSE b
Max(a, b) == IF a > b THEN a ELSE b
Range(s) == {s[i] : i \in 1..Len(s)}

VARIABLES
    \* --- operating system
    socks,              \* listening sockets: id -> [st, port]
    connSt,             \* ingest connection: "unused" | "backlog" | "open" | "closed"
    connSock,           \* the listening socket the connection was made to
    peerOpen,           \* the switch's end of the connection is still open
    \* --- SMDRServer fields
    srv_sock,           \* self._sock (NoSock = None)
    srv_port,           \* self.port
    srv_running,        \* self._running
    srv_accept_thread,  \* self._accept_thread (NoThread = None)
    srv_clients,        \* self._clients, in append order
    \* --- the thread calling start()/stop()
    ctlPc, ctlRet, ctlPort, ctlNew, ctlOld, ctlWasRunning, nCalls, result,
    \* --- accept threads and connection handler threads
    accPc, accSock, accConn, hPc,
    \* --- ingest data
    stream,             \* every byte the switch sends on the connection
    wire,               \* the bytes of it not yet returned by recv
    calls,              \* per connection, the texts on_data was invoked with
    decRaised,          \* per connection, how many decoders raised on the last chunk
    \* --- SMDRService
    data_queue,         \* self.data_queue
    wPc, wItem, wLines, wJ, wTs, wEntry, wErrors,   \* the _process_queue worker
    today,              \* the local date of the clock
    svc_last_date,      \* self.last_date
    svc_log_path,       \* self.log_path, as the date in the file's name
    files, fileExists,  \* the daily log files, by date
    nAppended,          \* lines appended to the log files so far
    writeFails,
    \* --- ViewerBroadcastServer
    vb_clients,         \* self._clients
    vb_log_path,        \* self.log_path
    rPc, rConn, rTail,  \* the relay's accept thread
    vb_running,         \* self._running of the relay
    vb_sock,            \* the relay's listening socket: "listening" | "closed"
    vsPc,               \* the thread calling the relay's stop()
    vb_lock,            \* self._lock of the relay: "free" | "worker"
    bSnap, bI, bDead,   \* broadcast(): list(self._clients), loop position, dead
    bAtLock,            \* self._clients when broadcast() took the lock
    vSt,                \* viewer socket: "unused" | "open" | "closed"
    vPeerOpen,          \* the viewer's end is still open
    vRecv,              \* what sendall() handed to the viewer's socket, in order
    snapN,              \* nAppended when the viewer's tail was read
    \* --- SMDRViewer (the viewer program)
    cMode,              \* self.connection_mode: "file" | "network"
    cLastPos,           \* self.last_position, in lines of the log file
    cShown,             \* the table rows, in order: [e, by, mode]
    cTimer,             \* self.timer is running
    cSock,              \* self._net_sock, as the viewer id at the relay (0 = None)
    cRunning,           \* self._net_running
    cThread,            \* self._net_thread (0 = None)
    cAuto,              \* self._auto_reconnect
    cReconn,            \* self._reconnect_timer: -1 = None, else the time left
    cEvents,            \* queued singleShot(0) calls of _handle_network_disconnect,
                        \* each with the reason its read loop ended
    gPc, gRet,          \* the GUI thread inside _stop_network_client, and its
                        \* caller: "user", or the reason of the call being handled
    nPc, nBuf, nWhy,    \* the network reader threads
    cRead,              \* per socket, how much of what was sent to it was received
    nConnects,          \* connections made so far
    sinceEnd,           \* time since a read loop last ended through peer close or
                        \* a read error (-1 = never)
    \* --- SMDRServer.is_port_available
    probe,              \* the last call: its port, its result, its socket
    \* --- SMDRService.main and SvcStop
    svc_viewer_server,  \* self.viewer_server: "unset" before main() starts the
                        \* relay, then "relay", or "none" when its start failed
    svc_reported,       \* LogErrorMsg calls of main()
    svc_running,        \* self.running
    \* --- SMDRViewer._check_for_updates
    pPc,                \* "idle", or "read" between the size check and the read
    current_size        \* the size found by the check, in lines

osVars == <<socks, connSt, connSock, peerOpen>>
srvVars == <<srv_sock, srv_port, srv_running, srv_accept_thread, srv_clients>>
ctlVars == <<ctlPc, ctlRet, ctlPort, ctlNew, ctlOld, ctlWasRunning, nCalls, result>>
thrVars == <<accPc, accSock, accConn, hPc>>
listenerVars == <<osVars, srvVars, ctlVars, thrVars>>

ingVars == <<stream, wire, calls, decRaised>>
wrkVars == <<data_queue, wPc, wItem, wLines, wJ, wTs, wEntry, wErrors>>
logVars == <<today, svc_last_date, svc_log_path, files, fileExists, nAppended, writeFails>>
vbStopVars == <<vb_running, vb_sock, vsPc>>
vbLockVars == <<vb_lock, bSnap, bI, bDead, bAtLock>>
relVars == <<vb_clients, vb_log_path, rPc, rConn, rTail, vbStopVars, vbLockVars>>
viewVars == <<vSt, vPeerOpen, vRecv, snapN>>
cliVars == <<cMode, cLastPos, cShown, cTimer, cSock, cRunning, cThread, cAuto, cReconn, cEvents,
             gPc, gRet, nPc, nBuf, nWhy, cRead, nConnects, sinceEnd>>
mainVars == <<svc_viewer_server, svc_reported, svc_running>>
pollVars == <<pPc, current_size>>
dataVars == <<ingVars, wrkVars, logVars, relVars, viewVars, cliVars, probe, mainVars, pollVars>>

vars == <<listenerVars, dataVars>>

\* ------------------------------------------------------- SMDRServer.__init__
NoResult == [ok |-> TRUE, errPort |-> -1, errCause |-> "none"]
NoProbe == [port |-> 0, ok |-> FALSE, sock |-> "none"]

ServerInit ==
    /\ srv_sock = NoSock
    /\ srv_accept_thread = NoThread
    /\ srv_clients = <<>>
    /\ srv_running = FALSE
    /\ srv_port = 7000

ListenerInit ==
    /\ ServerInit
    /\ socks = [s \in SockIds |-> [st |-> "unused", port |-> 0]]
    /\ connSt = [c \in ConnIds |-> "unused"]
    /\ connSock = [c \in ConnIds |-> NoSock]
    /\ peerOpen = [c \in ConnIds |-> FALSE]
    /\ ctlPc = "idle" /\ ctlRet = "idle" /\ ctlPort = 0 /\ ctlNew = NoSock
    /\ ctlOld = NoSock /\ ctlWasRunning = FALSE /\ nCalls = 0
    /\ result = NoResult
    /\ accPc = [t \in SockIds |-> "unborn"]
    /\ accSock = [t \in SockIds |-> NoSock]
    /\ accConn = [t \in SockIds |-> 0]
    /\ hPc = [c \in ConnIds |-> "none"]
    /\ probe = NoProbe

\* ---------------------------------------------------------------- the OS
\* Ports on which one of this process's sockets is bound and not yet closed.
OwnPorts == {socks[s].port : s \in {x \in SockIds : socks[x].st \in {"bound", "listening"}}}

\* A switch connects to port p: the kernel completes the handshake on a
\* listening socket of that port and queues the connection on its backlog.
Connect(c, p) ==
    /\ connSt[c] = "unused"
    /\ \A d \in ConnIds : d < c => connSt[d] # "unused"
    /\ \E s \in SockIds :
        /\ socks[s].st = "listening" /\ socks[s].port = p
        /\ connSock' = [connSock EXCEPT ![c] = s]
    /\ connSt' = [connSt EXCEPT ![c] = "backlog"]
    /\ peerOpen' = [peerOpen EXCEPT ![c] = TRUE]
    /\ UNCHANGED <<socks, srvVars, ctlVars, thrVars>>

PeerClose(c) ==
    /\ connSt[c] = "open" /\ peerOpen[c]
    /\ peerOpen' = [peerOpen EXCEPT ![c] = FALSE]
    /\ UNCHANGED <<socks, connSt, connSock, srvVars, ctlVars, thrVars>>

\* Mutant of CloseListening: the socket is given up but stays bound to its port.
CloseListening_KeepsPort(s) ==
    /\ socks' = [socks EXCEPT ![s].st = "bound"]
    /\ connSt' = [c \in ConnIds |->
                    IF connSt[c] = "backlog" /\ connSock[c] = s THEN "closed" ELSE connSt[c]]

\* Closing a listening socket resets the connections still on its backlog.
CloseListening(s) ==
    /\ socks' = [socks EXCEPT ![s] = [st |-> "closed", port |-> 0]]
    /\ connSt' = [c \in ConnIds |->
                    IF connSt[c] = "backlog" /\ connSock[c] = s THEN "closed" ELSE connSt[c]]

\* --------------------------------------------------------- SMDRServer.start
\* Mutant of StartBindFail: the running listener is stopped before the bind
\* is tried, so a failed bind leaves no listener.
StartBindFail_TearsDown(q) ==
    /\ ctlPc = "idle" /\ nCalls < MaxCalls
    /\ nCalls' = nCalls + 1
    /\ socks' = [s \in SockIds |->
                   IF s = nCalls + 1 \/ s = srv_sock
                     THEN [st |-> "closed", port |-> 0] ELSE socks[s]]
    /\ srv_sock' = NoSock /\ srv_running' = FALSE
    /\ ctlPort' = q
    /\ result' = [ok |-> FALSE, errPort |-> q, errCause |-> "bind"]
    /\ UNCHANGED <<connSt, connSock, peerOpen, srv_port, srv_accept_thread, srv_clients,
                   thrVars, ctlPc, ctlRet, ctlNew, ctlOld, ctlWasRunning>>

\* new_sock.bind(("0.0.0.0", port)) raised (the port is held by another
\* process, or by a socket of this one where the platform refuses the reuse):
\* new_sock is closed and RuntimeError("Could not bind to port {port}: {e}")
\* is raised before anything of the listener is touched.
StartBindFail(q) ==
    /\ ctlPc = "idle" /\ nCalls < MaxCalls
    /\ nCalls' = nCalls + 1
    /\ socks' = [socks EXCEPT ![nCalls + 1] = [st |-> "closed", port |-> 0]]
    /\ ctlPort' = q
    /\ result' = [ok |-> FALSE, errPort |-> q, errCause |-> "bind"]
    /\ UNCHANGED <<connSt, connSock, peerOpen, srvVars, thrVars,
                   ctlPc, ctlRet, ctlNew, ctlOld, ctlWasRunning>>

\* Mutant of StartBindOk: the listener is torn down as soon as the bind has
\* succeeded, before the new socket listens.
StartBindOk_StopFirst(q, p) ==
    /\ ctlPc = "idle" /\ nCalls < MaxCalls
    /\ IF q = 0 THEN p \notin OwnPorts ELSE p = q
    /\ nCalls' = nCalls + 1
    /\ ctlNew' = nCalls + 1
    /\ socks' = [socks EXCEPT ![nCalls + 1] = [st |-> "bound", port |-> p]]
    /\ ctlPort' = q
    /\ ctlOld' = srv_sock
    /\ ctlWasRunning' = (srv_running /\ srv_sock # NoSock)
    /\ ctlPc' = "stop_clear" /\ ctlRet' = "start_listen"
    /\ result' = NoResult
    /\ UNCHANGED <<connSt, connSock, peerOpen, srvVars, thrVars>>

\* bind() succeeded on port p (p = q, or any free port when q = 0).
StartBindOk(q, p) ==
    /\ ctlPc = "idle" /\ nCalls < MaxCalls
    /\ IF q = 0 THEN p \notin OwnPorts ELSE p = q
    /\ nCalls' = nCalls + 1
    /\ ctlNew' = nCalls + 1
    /\ socks' = [socks EXCEPT ![nCalls + 1] = [st |-> "bound", port |-> p]]
    /\ ctlPort' = q
    /\ ctlOld' = srv_sock
    /\ ctlWasRunning' = (srv_running /\ srv_sock # NoSock)
    /\ ctlPc' = "start_listen"
    /\ result' = NoResult
    /\ UNCHANGED <<connSt, connSock, peerOpen, srvVars, thrVars, ctlRet>>

\* new_sock.listen(5); actual_port = getsockname()[1]; then self.stop().
StartListen ==
    /\ ctlPc = "start_listen"
    /\ socks' = [socks EXCEPT ![ctlNew].st = "listening"]
    /\ ctlPc' = "stop_clear" /\ ctlRet' = "start_install"
    /\ UNCHANGED <<connSt, connSock, peerOpen, srvVars, thrVars,
                   ctlPort, ctlNew, ctlOld, ctlWasRunning, nCalls, result>>

\* listen() raised: new_sock is closed and the OS error is re-raised as it is.
StartListenFail ==
    /\ ctlPc = "start_listen"
    /\ socks' = [socks EXCEPT ![ctlNew] = [st |-> "closed", port |-> 0]]
    /\ ctlPc' = "idle" /\ ctlNew' = NoSock /\ ctlOld' = NoSock /\ ctlWasRunning' = FALSE
    /\ result' = [ok |-> FALSE, errPort |-> -1, errCause |-> "listen"]
    /\ UNCHANGED <<connSt, connSock, peerOpen, srvVars, thrVars,
                   ctlRet, ctlPort, nCalls>>

\* self._sock = new_sock; self.port = actual_port; self._running.set()
StartInstall ==
    /\ ctlPc = "start_install"
    /\ srv_sock' = ctlNew
    /\ srv_port' = socks[ctlNew].port
    /\ srv_running' = TRUE
    /\ ctlPc' = "start_spawn"
    /\ UNCHANGED <<osVars, srv_accept_thread, srv_clients, thrVars,
                   ctlRet, ctlPort, ctlNew, ctlOld, ctlWasRunning, nCalls, result>>

\* self._accept_thread = Thread(target=self._accept_loop); .start()
StartSpawn ==
    /\ ctlPc = "start_spawn"
    /\ srv_accept_thread' = ctlNew
    /\ accPc' = [accPc EXCEPT ![ctlNew] = "check"]
    /\ ctlPc' = "idle" /\ ctlRet' = "idle" /\ ctlNew' = NoSock
    /\ ctlOld' = NoSock /\ ctlWasRunning' = FALSE
    /\ UNCHANGED <<osVars, srv_sock, srv_port, srv_running, srv_clients,
                   accSock, accConn, hPc, ctlPort, nCalls, result>>

\* ---------------------------------------------------------- SMDRServer.stop
\* A call of stop() by the controlling thread (start() enters at stop_clear itself).
\* Calls are numbered; the socket of a start() has the number of its call.
StopCall ==
    /\ ctlPc = "idle" /\ nCalls < MaxCalls
    /\ nCalls' = nCalls + 1
    /\ ctlPc' = "stop_clear" /\ ctlRet' = "idle"
    /\ result' = NoResult /\ ctlPort' = 0
    /\ UNCHANGED <<osVars, srvVars, thrVars, ctlNew, ctlOld, ctlWasRunning>>

\* self._running.clear()
StopClear ==
    /\ ctlPc = "stop_clear"
    /\ srv_running' = FALSE
    /\ ctlPc' = "stop_sock"
    /\ UNCHANGED <<osVars, srv_sock, srv_port, srv_accept_thread, srv_clients, thrVars,
                   ctlRet, ctlPort, ctlNew, ctlOld, ctlWasRunning, nCalls, result>>

\* if self._sock: shutdown, close, self._sock = None
StopCloseSock ==
    /\ ctlPc = "stop_sock"
    /\ IF srv_sock # NoSock
         THEN CloseListening(srv_sock)
         ELSE UNCHANGED <<socks, connSt>>
    /\ srv_sock' = NoSock
    /\ ctlPc' = "stop_clients"
    /\ UNCHANGED <<connSock, peerOpen, srv_port, srv_running, srv_accept_thread,
                   srv_clients, thrVars,
                   ctlRet, ctlPort, ctlNew, ctlOld, ctlWasRunning, nCalls, result>>

\* for conn, _ in self._clients: shutdown, close
StopCloseClients ==
    /\ ctlPc = "stop_clients"
    /\ connSt' = [c \in ConnIds |-> IF c \in Range(srv_clients) THEN "closed" ELSE connSt[c]]
    /\ ctlPc' = "stop_reset"
    /\ UNCHANGED <<socks, connSock, peerOpen, srvVars, thrVars,
                   ctlRet, ctlPort, ctlNew, ctlOld, ctlWasRunning, nCalls, result>>

\* self._clients = []
StopResetClients ==
    /\ ctlPc = "stop_reset"
    /\ srv_clients' = <<>>
    /\ ctlPc' = "stop_join"
    /\ UNCHANGED <<osVars, srv_sock, srv_port, srv_running, srv_accept_thread, thrVars,
                   ctlRet, ctlPort, ctlNew, ctlOld, ctlWasRunning, nCalls, result>>

\* if self._accept_thread: join(timeout=2.0); warn if still alive; = None.
\* The join returns when the thread has ended or when the two seconds are over.
StopJoin ==
    /\ ctlPc = "stop_join"
    /\ srv_accept_thread' = NoThread
    /\ ctlPc' = ctlRet
    /\ UNCHANGED <<osVars, srv_sock, srv_port, srv_running, srv_clients, thrVars,
                   ctlRet, ctlPort, ctlNew, ctlOld, ctlWasRunning, nCalls, result>>

\* -------------------------------------------------- SMDRServer._accept_loop
\* while self._running.is_set():
AccCheck(t) ==
    /\ accPc[t] = "check"
    /\ accPc' = [accPc EXCEPT ![t] = IF srv_running THEN "call" ELSE "done"]
    /\ UNCHANGED <<osVars, srvVars, ctlVars, accSock, accConn, hPc>>

\* self._sock.accept(): self._sock is read now; None has no accept() and the
\* AttributeError ends the thread.
AccCall(t) ==
    /\ accPc[t] = "call"
    /\ IF srv_sock = NoSock
         THEN accPc' = [accPc EXCEPT ![t] = "done"] /\ UNCHANGED accSock
         ELSE /\ accPc' = [accPc EXCEPT ![t] = "accept"]
              /\ accSock' = [accSock EXCEPT ![t] = srv_sock]
    /\ UNCHANGED <<osVars, srvVars, ctlVars, accConn, hPc>>

\* accept() returns a connection; its handler thread is started.
AccAccept(t, c) ==
    /\ accPc[t] = "accept"
    /\ socks[accSock[t]].st = "listening"
    /\ connSt[c] = "backlog" /\ connSock[c] = accSock[t]
    /\ connSt' = [connSt EXCEPT ![c] = "open"]
    /\ connSock' = [connSock EXCEPT ![c] = NoSock]
    /\ hPc' = [hPc EXCEPT ![c] = "check"]
    /\ accConn' = [accConn EXCEPT ![t] = c]
    /\ accSock' = [accSock EXCEPT ![t] = NoSock]
    /\ accPc' = [accPc EXCEPT ![t] = "append"]
    /\ UNCHANGED <<socks, peerOpen, srvVars, ctlVars>>

\* accept() raises OSError on the closed socket: break
AccError(t) ==
    /\ accPc[t] = "accept"
    /\ socks[accSock[t]].st = "closed"
    /\ accPc' = [accPc EXCEPT ![t] = "done"]
    /\ accSock' = [accSock EXCEPT ![t] = NoSock]
    /\ UNCHANGED <<osVars, srvVars, ctlVars, accConn, hPc>>

\* self._clients.append((conn, t))
AccAppend(t) ==
    /\ accPc[t] = "append"
    /\ srv_clients' = Append(srv_clients, accConn[t])
    /\ accPc' = [accPc EXCEPT ![t] = "check"]
    /\ accConn' = [accConn EXCEPT ![t] = 0]
    /\ UNCHANGED <<osVars, srv_sock, srv_port, srv_running, srv_accept_thread, ctlVars,
                   accSock, hPc>>

\* ------------------------------------------------ SMDRServer._handle_client
\* while self._running.is_set(): ... ; leaving "with conn" closes the socket.
HandlerCheck(c) ==
    /\ hPc[c] = "check"
    /\ IF srv_running
         THEN hPc' = [hPc EXCEPT ![c] = "recv"] /\ UNCHANGED <<connSt, peerOpen>>
         ELSE /\ hPc' = [hPc EXCEPT ![c] = "done"]
              /\ connSt' = [connSt EXCEPT ![c] = "closed"]
              /\ peerOpen' = [peerOpen EXCEPT ![c] = FALSE]
    /\ UNCHANGED <<socks, connSock, srvVars, ctlVars, accPc, accSock, accConn>>

\* Mutant of HandlerRecvEnd: the handler that ends closes every connection
\* of the client list.
HandlerRecvEnd_ClosesAll(c) ==
    /\ hPc[c] = "recv"
    /\ connSt[c] = "closed" \/ (~peerOpen[c] /\ wire[c] = <<>>)
    /\ hPc' = [hPc EXCEPT ![c] = "done"]
    /\ connSt' = [d \in ConnIds |-> IF d = c \/ d \in Range(srv_clients)
                                       THEN "closed" ELSE connSt[d]]
    /\ peerOpen' = [peerOpen EXCEPT ![c] = FALSE]
    /\ UNCHANGED <<socks, connSock, srvVars, ctlVars, accPc, accSock, accConn>>

\* conn.recv(4096) returns b"" (peer closed) or raises OSError (socket closed
\* by stop()): break, and the socket is closed.
HandlerRecvEnd(c) ==
    /\ hPc[c] = "recv"
    /\ connSt[c] = "closed" \/ (~peerOpen[c] /\ wire[c] = <<>>)
    /\ hPc' = [hPc EXCEPT ![c] = "done"]
    /\ connSt' = [connSt EXCEPT ![c] = "closed"]
    /\ peerOpen' = [peerOpen EXCEPT ![c] = FALSE]
    /\ UNCHANGED <<socks, connSock, srvVars, ctlVars, accPc, accSock, accConn>>

\* ------------------------------------------------------------ the listener
ListenerStep ==
    \/ \E c \in 1..MaxConns, p \in Ports : Connect(c, p)
    \/ \E c \in ConnIds : PeerClose(c)
    \/ \E q \in {0} \cup Ports : StartBindFail(q)
    \/ \E q \in {0} \cup Ports, p \in Ports : StartBindOk(q, p)
    \/ StartListen
    \/ StartListenFail
    \/ StartInstall
    \/ StartSpawn
    \/ StopCall
    \/ StopClear
    \/ StopCloseSock
    \/ StopCloseClients
    \/ StopResetClients
    \/ StopJoin
    \/ \E t \in SockIds : AccCheck(t)
    \/ \E t \in SockIds : AccCall(t)
    \/ \E t \in SockIds, c \in ConnIds : AccAccept(t, c)
    \/ \E t \in SockIds : AccError(t)
    \/ \E t \in SockIds : AccAppend(t)
    \/ \E c \in ConnIds : HandlerCheck(c)
    \/ \E c \in ConnIds : HandlerRecvEnd(c)

ListenerNext == ListenerStep /\ UNCHANGED dataVars

\* The steps of the accept thread t, of the handler thread of connection c,
\* and of a call of start() or stop() once it has begun.
AcceptThread(t) ==
    /\ \/ AccCheck(t) \/ AccCall(t) \/ AccError(t) \/ AccAppend(t)
       \/ \E c \in ConnIds : AccAccept(t, c)
    /\ UNCHANGED dataVars

HandlerThread(c) ==
    /\ HandlerCheck(c) \/ HandlerRecvEnd(c)
    /\ UNCHANGED dataVars

CallInProgress ==
    /\ \/ StartListen \/ StartListenFail \/ StartInstall \/ StartSpawn
       \/ StopClear \/ StopCloseSock \/ StopCloseClients \/ StopResetClients \/ StopJoin
    /\ UNCHANGED dataVars

\* Every thread that can take a step takes one in the end.
ThreadsRun ==
    /\ \A t \in SockIds : WF_vars(AcceptThread(t))
    /\ \A c \in ConnIds : WF_vars(HandlerThread(c))
    /\ WF_vars(CallInProgress)

\* A listener started on port 1 before the counted calls, no connection yet.
StartedBefore ==
    /\ socks = [s \in SockIds |-> IF s = MaxCalls + 1 THEN [st |-> "listening", port |-> 1]
                                          ELSE [st |-> "unused", port |-> 0]]
    /\ srv_sock = MaxCalls + 1 /\ srv_port = 1 /\ srv_running = TRUE
    /\ srv_accept_thread = MaxCalls + 1
    /\ srv_clients = <<>>
    /\ connSt = [c \in ConnIds |-> "unused"]
    /\ connSock = [c \in ConnIds |-> NoSock]
    /\ peerOpen = [c \in ConnIds |-> FALSE]
    /\ ctlPc = "idle" /\ ctlRet = "idle" /\ ctlPort = 1 /\ ctlNew = NoSock
    /\ ctlOld = NoSock /\ ctlWasRunning = FALSE /\ nCalls = 0
    /\ result = NoResult
    /\ accPc = [t \in SockIds |-> IF t = MaxCalls + 1 THEN "accept" ELSE "unborn"]
    /\ accSock = [t \in SockIds |-> IF t = MaxCalls + 1 THEN t ELSE NoSock]
    /\ accConn = [t \in SockIds |-> 0]
    /\ hPc = [c \in ConnIds |-> "none"]
    /\ probe = NoProbe

\* ------------------------------------------------------------------ text
\* Characters are code points, bytes are 0..255.
RecvBuf == 4096      \* conn.recv(4096)
TailMax == 200       \* deque(f, maxlen=200)

\* bytes.decode("utf-8", errors="replace") on one- and two-byte sequences:
\* every byte that starts no well-formed sequence becomes U+FFFD.
RECURSIVE Decode(_)
Decode(b) ==
    IF b = <<>> THEN <<>>
    ELSE IF b[1] < 128 THEN <<b[1]>> \o Decode(Tail(b))
    ELSE IF b[1] \in 194..223 /\ Len(b) >= 2 /\ b[2] \in 128..191
        THEN <<(b[1] - 192) * 64 + (b[2] - 128)>> \o Decode(SubSeq(b, 3, Len(b)))
    ELSE <<65533>> \o Decode(Tail(b))

\* The line boundaries of str.splitlines(): \n \r \r\n \v \f FS GS RS NEL LS PS.
LineBreaks == {10, 11, 12, 13, 28, 29, 30, 133, 8232, 8233}
\* The characters str.strip() removes.
Whitespace == LineBreaks \cup {9, 31, 32, 160}

RECURSIVE SplitFrom(_, _, _)
SplitFrom(t, i, cur) ==
    IF i > Len(t) THEN (IF cur = <<>> THEN <<>> ELSE <<cur>>)
    ELSE IF t[i] = 13 /\ i < Len(t) /\ t[i + 1] = 10
        THEN <<cur>> \o SplitFrom(t, i + 2, <<>>)
    ELSE IF t[i] \in LineBreaks THEN <<cur>> \o SplitFrom(t, i + 1, <<>>)
    ELSE SplitFrom(t, i + 1, Append(cur, t[i]))

\* text.splitlines()
SplitLines(t) == SplitFrom(t, 1, <<>>)

\* not line.strip()
IsBlank(line) == \A i \in 1..Len(line) : line[i] \in Whitespace

\* The lines of a chunk that _log_data writes: "if not line.strip(): continue".
KeptLines(lines) == SelectSeq(lines, LAMBDA l : ~IsBlank(l))
LogLines(text) == KeptLines(SplitLines(text))

\* Mutant of Put: the text is split and the callback invoked once per line.
RECURSIVE PutEach(_, _, _, _)
PutEach(lines, c, cs, q) ==
    IF lines = <<>> THEN [cs |-> cs, q |-> q]
    ELSE PutEach(Tail(lines), c, Append(cs, Head(lines)),
                 Append(q, [text |-> Head(lines), addr |-> c, k |-> Len(cs) + 1]))
Put_PerLine(text, c) ==
    /\ calls' = [calls EXCEPT ![c] = PutEach(SplitLines(text), c, @, data_queue).cs]
    /\ data_queue' = PutEach(SplitLines(text), c, calls[c], data_queue).q

\* Mutant of Put: the hand-over waits for the worker to be idle and for the
\* relay lock to be free.
Put_WhenWorkerIdle(text, c) ==
    /\ wPc = "idle" /\ vb_lock = "free"
    /\ calls' = [calls EXCEPT ![c] = Append(@, text)]
    /\ data_queue' = Append(data_queue, [text |-> text, addr |-> c, k |-> Len(calls[c]) + 1])

\* --------------------------------------- SMDRService._on_data_received
\* self.data_queue.put((text, addr)); the item carries the ordinal of the
\* invocation on its connection.
Put(text, c) ==
    /\ calls' = [calls EXCEPT ![c] = Append(@, text)]
    /\ data_queue' = Append(data_queue, [text |-> text, addr |-> c, k |-> Len(calls[c]) + 1])

\* --------------------------------- SMDRServer._handle_client, with data
\* data = conn.recv(4096) returns n bytes; text = data.decode("utf-8",
\* errors="replace"); self.on_data(text, addr), once, with the whole text.
HandlerRecvData(c, n) ==
    /\ hPc[c] = "recv" /\ connSt[c] = "open"
    /\ n \in 1..Min(Len(wire[c]), RecvBuf)
    /\ wire' = [wire EXCEPT ![c] = SubSeq(@, n + 1, Len(@))]
    /\ Put(Decode(SubSeq(wire[c], 1, n)), c)
    /\ hPc' = [hPc EXCEPT ![c] = "check"]
    /\ UNCHANGED <<osVars, srvVars, ctlVars, accPc, accSock, accConn, stream, decRaised,
                   wPc, wItem, wLines, wJ, wTs, wEntry, wErrors, logVars, relVars, viewVars,
                   cliVars, probe, mainVars, pollVars>>

\* ------------------------------------------ SMDRService._process_queue
NoItem == [text |-> <<>>, addr |-> 0, k |-> 0]
NoEntry == [ts |-> 0, addr |-> 0, line |-> <<>>, k |-> 0, j |-> 0, n |-> 0]

\* Mutant of QueueGet: last in, first out.
QueueGet_Lifo(q) == [item |-> q[Len(q)], rest |-> SubSeq(q, 1, Len(q) - 1)]

\* First in, first out: queue.Queue.get()
QueueGet(q) == [item |-> Head(q), rest |-> Tail(q)]

\* text, addr = self.data_queue.get(); _log_data begins with
\* _check_date_and_rotate(): today = datetime.now().date();
\* if today != self.last_date: self.last_date = today
WorkerDequeue ==
    /\ wPc = "idle" /\ data_queue # <<>>
    /\ wItem' = QueueGet(data_queue).item
    /\ data_queue' = QueueGet(data_queue).rest
    /\ IF today # svc_last_date
         THEN svc_last_date' = today /\ wPc' = "rotate"
         ELSE UNCHANGED svc_last_date /\ wPc' = "stamp"
    /\ UNCHANGED <<listenerVars, cliVars, probe, mainVars, pollVars, ingVars, wLines, wJ, wTs, wEntry, wErrors,
                   today, svc_log_path, files, fileExists, nAppended, writeFails,
                   relVars, viewVars>>

\* self.log_path = self.config.get_current_log_file(): SMDRdata<MMDDYY>.log
\* of the date the clock shows now.
WorkerRotate ==
    /\ wPc = "rotate"
    /\ svc_log_path' = today
    /\ wPc' = "stamp"
    /\ UNCHANGED <<listenerVars, cliVars, probe, mainVars, pollVars, ingVars, data_queue, wItem, wLines, wJ, wTs, wEntry, wErrors,
                   today, svc_last_date, files, fileExists, nAppended, writeFails,
                   relVars, viewVars>>

\* ts = datetime.now().strftime(...); for line in text.splitlines(): blank
\* lines are skipped.
WorkerStamp ==
    /\ wPc = "stamp"
    /\ wTs' = today
    /\ wLines' = LogLines(wItem.text)
    /\ wJ' = 0
    /\ wPc' = IF LogLines(wItem.text) = <<>> THEN "idle" ELSE "write"
    /\ UNCHANGED <<listenerVars, cliVars, probe, mainVars, pollVars, ingVars, data_queue, wItem, wEntry, wErrors,
                   logVars, relVars, viewVars>>

\* log_entry = f"[{ts}] {addr[0]}:{addr[1]} {line}\n";
\* with open(self.log_path, "a") as f: f.write(log_entry)
WorkerWrite ==
    /\ wPc = "write"
    /\ LET e == [ts |-> wTs, addr |-> wItem.addr, line |-> Head(wLines),
                 k |-> wItem.k, j |-> wJ + 1, n |-> nAppended + 1]
       IN /\ files' = [files EXCEPT ![svc_log_path] = Append(@, e)]
          /\ wEntry' = e
    /\ fileExists' = [fileExists EXCEPT ![svc_log_path] = TRUE]
    /\ nAppended' = nAppended + 1
    /\ wJ' = wJ + 1
    /\ wPc' = "bcast"
    /\ UNCHANGED <<listenerVars, cliVars, probe, mainVars, pollVars, ingVars, data_queue, wItem, wLines, wTs, wErrors,
                   today, svc_last_date, svc_log_path, writeFails, relVars, viewVars>>

\* open() or write() raises: the exception leaves the for loop and is
\* reported by the outer except; the rest of the chunk is not handled.
WorkerWriteFail ==
    /\ wPc = "write" /\ writeFails < MaxWriteFails
    /\ writeFails' = writeFails + 1
    /\ wErrors' = wErrors + 1
    /\ wLines' = <<>> /\ wJ' = 0 /\ wItem' = NoItem
    /\ wPc' = "idle"
    /\ UNCHANGED <<listenerVars, cliVars, probe, mainVars, pollVars, ingVars, data_queue, wTs, wEntry,
                   today, svc_last_date, svc_log_path, files, fileExists, nAppended,
                   relVars, viewVars>>

\* -------------------------------------- ViewerBroadcastServer.broadcast
\* The viewers, in list order, without those of the set dead.
Without(list, dead) == SelectSeq(list, LAMBDA v : v \notin dead)

\* Mutant of Broadcast: the first failing send ends the loop; the clients
\* after it get nothing and nobody is removed.
Broadcast_AbortOnFailure(e, dead) ==
    LET firstDead == IF dead = {} THEN Len(vb_clients) + 1
                     ELSE CHOOSE i \in 1..Len(vb_clients) :
                            /\ vb_clients[i] \in dead
                            /\ \A h \in 1..(i - 1) : vb_clients[h] \notin dead
        reached == {vb_clients[i] : i \in 1..(firstDead - 1)}
    IN /\ vRecv' = [v \in ViewerIds |->
                      IF v \in reached
                        THEN Append(vRecv[v], [src |-> "live", e |-> e]) ELSE vRecv[v]]
       /\ UNCHANGED <<vSt, vPeerOpen, vb_clients>>

\* with self._lock: sendall to every client; a client whose sendall raised
\* is closed and removed. dead: the clients whose send raises.
Broadcast(e, dead) ==
    /\ vRecv' = [v \in ViewerIds |->
                   IF v \in Range(vb_clients) /\ v \notin dead
                     THEN Append(vRecv[v], [src |-> "live", e |-> e]) ELSE vRecv[v]]
    /\ vSt' = [v \in ViewerIds |-> IF v \in dead THEN "closed" ELSE vSt[v]]
    /\ vPeerOpen' = [v \in ViewerIds |-> IF v \in dead THEN FALSE ELSE vPeerOpen[v]]
    /\ vb_clients' = Without(vb_clients, dead)

\* self.viewer_server.broadcast(log_entry), then the next line of the chunk.
\* A send raises only on a socket whose viewer has gone.
WorkerBroadcast ==
    /\ wPc = "bcast" /\ svc_viewer_server = "relay"
    /\ vb_lock = "free"
    /\ \E dead \in SUBSET {v \in Range(vb_clients) : ~vPeerOpen[v]} :
          Broadcast(wEntry, dead)
    /\ wLines' = Tail(wLines)
    /\ wEntry' = NoEntry
    /\ IF Tail(wLines) = <<>>
         THEN wPc' = "idle" /\ wItem' = NoItem /\ wJ' = 0
         ELSE wPc' = "write" /\ UNCHANGED <<wItem, wJ>>
    /\ UNCHANGED <<listenerVars, cliVars, probe, mainVars, pollVars, ingVars, data_queue, wTs, wErrors, logVars,
                   vb_log_path, rPc, rConn, rTail, vbStopVars, vbLockVars, snapN>>

\* The same broadcast, statement by statement.
\* with self._lock: for conn in list(self._clients)
BcastLock ==
    /\ wPc = "bcast" /\ svc_viewer_server = "relay"
    /\ vb_lock = "free"
    /\ vb_lock' = "worker"
    /\ bSnap' = vb_clients /\ bAtLock' = vb_clients
    /\ bI' = 1 /\ bDead' = {}
    /\ wPc' = "bcast_send"
    /\ UNCHANGED <<listenerVars, cliVars, probe, mainVars, pollVars, ingVars, data_queue, wItem, wLines, wJ, wTs, wEntry, wErrors,
                   logVars, vb_clients, vb_log_path, rPc, rConn, rTail, vbStopVars, viewVars>>

\* conn.sendall(data); except Exception: dead.append(conn)
BcastSend ==
    /\ wPc = "bcast_send"
    /\ bI <= Len(bSnap)
    /\ \/ /\ vRecv' = [vRecv EXCEPT ![bSnap[bI]] = Append(@, [src |-> "live", e |-> wEntry])]
          /\ UNCHANGED bDead
       \/ /\ ~vPeerOpen[bSnap[bI]]
          /\ bDead' = bDead \cup {bSnap[bI]}
          /\ UNCHANGED vRecv
    /\ bI' = bI + 1
    /\ UNCHANGED <<listenerVars, cliVars, probe, mainVars, pollVars, ingVars, wrkVars, logVars, vb_clients, vb_log_path, rPc,
                   rConn, rTail, vbStopVars, vb_lock, bSnap, bAtLock, vSt, vPeerOpen, snapN>>

\* for conn in dead: conn.close(); self._clients.remove(conn); the lock is
\* released and _log_data goes on to the next line of the chunk.
BcastRemove ==
    /\ wPc = "bcast_send"
    /\ bI > Len(bSnap)
    /\ vSt' = [v \in ViewerIds |-> IF v \in bDead THEN "closed" ELSE vSt[v]]
    /\ vPeerOpen' = [v \in ViewerIds |-> IF v \in bDead THEN FALSE ELSE vPeerOpen[v]]
    /\ vb_clients' = Without(vb_clients, bDead)
    /\ vb_lock' = "free"
    /\ bSnap' = <<>> /\ bI' = 0 /\ bDead' = {}
    /\ wLines' = Tail(wLines)
    /\ wEntry' = NoEntry
    /\ IF Tail(wLines) = <<>>
         THEN wPc' = "idle" /\ wItem' = NoItem /\ wJ' = 0
         ELSE wPc' = "write" /\ UNCHANGED <<wItem, wJ>>
    /\ UNCHANGED <<listenerVars, cliVars, probe, mainVars, pollVars, ingVars, data_queue, wTs, wErrors, logVars,
                   vb_log_path, rPc, rConn, rTail, vbStopVars, bAtLock, vRecv, snapN>>

BcastSteps ==
    \/ BcastLock
    \/ BcastSend
    \/ BcastRemove

\* --------------------------------------------------- initial conditions
\* No viewer program is running.
NoClient ==
    /\ cMode = "file" /\ cLastPos = 0 /\ cShown = <<>> /\ cTimer = FALSE
    /\ pPc = "idle" /\ current_size = 0
    /\ cSock = 0 /\ cRunning = FALSE /\ cThread = 0
    /\ cAuto = TRUE /\ cReconn = -1 /\ cEvents = <<>>
    /\ gPc = "idle" /\ gRet = "none"
    /\ nPc = [t \in NetThreads |-> "unborn"]
    /\ nBuf = [t \in NetThreads |-> <<>>]
    /\ nWhy = [t \in NetThreads |-> "none"]
    /\ cRead = [v \in ViewerIds |-> 0]
    /\ nConnects = 0 /\ sinceEnd = -1

WorkerIdle ==
    /\ data_queue = <<>>
    /\ wPc = "idle" /\ wItem = NoItem /\ wLines = <<>> /\ wJ = 0 /\ wTs = 0
    /\ wEntry = NoEntry /\ wErrors = 0

\* main() has started the relay and the worker thread and waits for the stop
\* signal.
MainWaiting == svc_viewer_server = "relay" /\ svc_reported = 0 /\ svc_running = TRUE

WorkerInit == WorkerIdle /\ MainWaiting

\* The service constructed and started on day 1, no log file of that day yet.
LogInit ==
    /\ today = 1 /\ svc_last_date = 1 /\ svc_log_path = 1
    /\ files = [d \in Days |-> <<>>]
    /\ fileExists = [d \in Days |-> FALSE]
    /\ nAppended = 0 /\ writeFails = 0

RelayInit ==
    /\ vb_clients = <<>> /\ vb_log_path = 1
    /\ rPc = "accept" /\ rConn = 0 /\ rTail = <<>>
    /\ vb_running = TRUE /\ vb_sock = "listening" /\ vsPc = "idle"
    /\ vb_lock = "free" /\ bSnap = <<>> /\ bI = 0 /\ bDead = {} /\ bAtLock = <<>>
    /\ vSt = [v \in ViewerIds |-> "unused"]
    /\ vPeerOpen = [v \in ViewerIds |-> FALSE]
    /\ vRecv = [v \in ViewerIds |-> <<>>]
    /\ snapN = [v \in ViewerIds |-> 0]

NoData ==
    /\ stream = [c \in ConnIds |-> <<>>]
    /\ wire = [c \in ConnIds |-> <<>>]
    /\ calls = [c \in ConnIds |-> <<>>]
    /\ decRaised = [c \in ConnIds |-> 0]

\* The listener constructed and the service idle behind it.
ConstructedInit == ListenerInit /\ NoData /\ WorkerInit /\ LogInit /\ RelayInit /\ NoClient

SpecListener == ConstructedInit /\ [][ListenerNext]_vars

\* The same with its threads scheduled fairly.
SpecListenerFair == ConstructedInit /\ [][ListenerNext]_vars /\ ThreadsRun

\* --------------------------------------------------- is_port_available
\* The sockets of this process that hold port p: every one of them was bound
\* by start() with SO_REUSEADDR set.
Holders(p) == {s \in SockIds : socks[s].st \in {"bound", "listening"} /\ socks[s].port = p}

\* The outcome of the probe's bind(("0.0.0.0", p)). With SO_EXCLUSIVEADDRUSE
\* (exclusive) any holder refuses it; with the SO_REUSEADDR fallback only a
\* listening holder does.
ProbeBinds(p, exclusive) ==
    IF exclusive THEN Holders(p) = {}
    ELSE \A s \in Holders(p) : socks[s].st # "listening"

\* SMDRServer.is_port_available(p), a static method: it creates a socket,
\* sets the option the platform has, binds, and closes the socket in its
\* finally clause; it touches no field of any server.
IsPortAvailable(p, exclusive) ==
    /\ probe' = [port |-> p, ok |-> ProbeBinds(p, exclusive), sock |-> "closed"]
    /\ probe' # probe
    /\ UNCHANGED <<listenerVars, ingVars, wrkVars, logVars, relVars, viewVars, cliVars,
                   mainVars, pollVars>>

ProbeInit == ConstructedInit
ProbeNext ==
    \/ ListenerNext
    \/ \E p \in Ports, exclusive \in BOOLEAN : IsPortAvailable(p, exclusive)
SpecProbe == ProbeInit /\ [][ProbeNext]_vars

\* The same listener, already Running when the counted calls begin.
RunningInit == StartedBefore /\ NoData /\ WorkerInit /\ LogInit /\ RelayInit /\ NoClient

SpecRunning == RunningInit /\ [][ListenerNext]_vars

\* ------------------------------------------------------ the ingest path
\* All byte sequences over alpha of length 0..n.
RECURSIVE SeqsUpTo(_, _)
SeqsUpTo(alpha, n) ==
    IF n = 0 THEN {<<>>}
    ELSE LET shorter == SeqsUpTo(alpha, n - 1)
         IN shorter \cup {Append(x, a) : x \in shorter, a \in alpha}

\* "X\n", "A\r\nB\r\n", "A\nB", " \nA\n", "\xc3\xa9\n"
NamedStreams ==
    { <<88, 10>>, <<65, 13, 10, 66, 13, 10>>, <<65, 10, 66>>, <<32, 10, 65, 10>>,
      <<195, 169, 10>> }
Streams == SeqsUpTo({10, 13, 65, 255}, MaxStreamLen) \cup NamedStreams

\* A listener Running on port 1 with the connections 1..n accepted and their
\* handlers started.
RunningListener(n) ==
    /\ socks = [s \in SockIds |-> IF s = 1 THEN [st |-> "listening", port |-> 1]
                                          ELSE [st |-> "unused", port |-> 0]]
    /\ srv_sock = 1 /\ srv_port = 1 /\ srv_running = TRUE /\ srv_accept_thread = 1
    /\ srv_clients = [c \in 1..n |-> c]
    /\ connSt = [c \in ConnIds |-> IF c <= n THEN "open" ELSE "unused"]
    /\ connSock = [c \in ConnIds |-> NoSock]
    /\ peerOpen = [c \in ConnIds |-> c <= n]
    /\ ctlPc = "idle" /\ ctlRet = "idle" /\ ctlPort = 1 /\ ctlNew = NoSock
    /\ ctlOld = NoSock /\ ctlWasRunning = FALSE /\ nCalls = 1
    /\ result = NoResult
    /\ accPc = [t \in SockIds |-> IF t = 1 THEN "accept" ELSE "unborn"]
    /\ accSock = [t \in SockIds |-> IF t = 1 THEN 1 ELSE NoSock]
    /\ accConn = [t \in SockIds |-> 0]
    /\ hPc = [c \in ConnIds |-> IF c <= n THEN "check" ELSE "none"]
    /\ probe = NoProbe

\* The service started on day 1 behind such a listener; viewer 1 connected to
\* the relay before any log file existed and is registered.
Serving(n) ==
    /\ RunningListener(n)
    /\ WorkerInit /\ LogInit /\ NoClient
    /\ vb_clients = <<1>> /\ vb_log_path = 1
    /\ rPc = "accept" /\ rConn = 0 /\ rTail = <<>>
    /\ vb_running = TRUE /\ vb_sock = "listening" /\ vsPc = "idle"
    /\ vb_lock = "free" /\ bSnap = <<>> /\ bI = 0 /\ bDead = {} /\ bAtLock = <<>>
    /\ vSt = [v \in ViewerIds |-> IF v = 1 THEN "open" ELSE "unused"]
    /\ vPeerOpen = [v \in ViewerIds |-> v = 1]
    /\ vRecv = [v \in ViewerIds |-> <<>>]
    /\ snapN = [v \in ViewerIds |-> 0]

\* One connection, its stream any of Streams.
IngestInit ==
    /\ Serving(1)
    /\ calls = [c \in ConnIds |-> <<>>]
    /\ decRaised = [c \in ConnIds |-> 0]
    /\ \E b \in Streams : stream = [c \in ConnIds |-> IF c = 1 THEN b ELSE <<>>]
    /\ wire = stream

IngestNext ==
    \/ \E c \in ConnIds : HandlerCheck(c) /\ UNCHANGED dataVars
    \/ \E c \in ConnIds : PeerClose(c) /\ UNCHANGED dataVars
    \/ \E c \in ConnIds : HandlerRecvEnd(c) /\ UNCHANGED dataVars
    \/ \E c \in ConnIds, n \in 1..(MaxStreamLen + 3) : HandlerRecvData(c, n)
    \/ WorkerDequeue
    \/ WorkerStamp
    \/ WorkerWrite
    \/ WorkerWriteFail
    \/ WorkerBroadcast

SpecIngest == IngestInit /\ [][IngestNext]_vars

\* The same with the broadcast taken statement by statement: the worker may
\* stay in a file write or in a send to the viewer for any length of time.
HandoffInit == IngestInit

HandoffNext ==
    \/ \E c \in ConnIds : HandlerCheck(c) /\ UNCHANGED dataVars
    \/ \E c \in ConnIds : PeerClose(c) /\ UNCHANGED dataVars
    \/ \E c \in ConnIds : HandlerRecvEnd(c) /\ UNCHANGED dataVars
    \/ \E c \in ConnIds, n \in 1..(MaxStreamLen + 3) : HandlerRecvData(c, n)
    \/ WorkerDequeue
    \/ WorkerStamp
    \/ WorkerWrite
    \/ BcastSteps

SpecHandoff == HandoffInit /\ [][HandoffNext]_vars

\* ------------------------- SMDRServer._handle_client, the guarded steps
\* data.decode("latin-1"): every byte is the code point of the same number.
Latin1(b) == [i \in 1..Len(b) |-> b[i]]

\* str(data): the repr of a bytes object, b'...' (b"..." when the bytes hold
\* a ' and no "), with \t \n \r \\ and the quote escaped and every other byte
\* outside 32..126 written \xhh.
HexDigit(d) == IF d < 10 THEN 48 + d ELSE 87 + d
ReprByte(x, quote) ==
    IF x = 92 THEN <<92, 92>>
    ELSE IF x = 9 THEN <<92, 116>>
    ELSE IF x = 10 THEN <<92, 110>>
    ELSE IF x = 13 THEN <<92, 114>>
    ELSE IF x = quote THEN <<92, x>>
    ELSE IF x >= 32 /\ x <= 126 THEN <<x>>
    ELSE <<92, 120, HexDigit(x \div 16), HexDigit(x % 16)>>
RECURSIVE ReprBody(_, _)
ReprBody(b, quote) ==
    IF b = <<>> THEN <<>> ELSE ReprByte(Head(b), quote) \o ReprBody(Tail(b), quote)
Repr(b) ==
    LET quote == IF 39 \in Range(b) /\ 34 \notin Range(b) THEN 34 ELSE 39
    IN <<98, quote>> \o ReprBody(b, quote) \o <<quote>>

\* "<undecodable data>"
Placeholder ==
    <<60, 117, 110, 100, 101, 99, 111, 100, 97, 98, 108, 101, 32, 100, 97, 116, 97, 62>>

\* Mutant of DecodeWith: no latin-1 and no str() fallback.
DecodeWith_NoFallback(b, m) == IF m = 0 THEN Decode(b) ELSE Placeholder

\* The nested try blocks of the decode step, m of the decoders raising in
\* turn: utf-8 with errors="replace", latin-1, str(data), the placeholder.
DecodeWith(b, m) ==
    IF m = 0 THEN Decode(b)
    ELSE IF m = 1 THEN Latin1(b)
    ELSE IF m = 2 THEN Repr(b)
    ELSE Placeholder

\* Mutant of CallbackRaised: the exception ends the handler, "with conn"
\* closes the connection.
CallbackRaised_Propagates(c) ==
    /\ hPc' = [hPc EXCEPT ![c] = "done"]
    /\ connSt' = [connSt EXCEPT ![c] = "closed"]
    /\ peerOpen' = [peerOpen EXCEPT ![c] = FALSE]
    /\ UNCHANGED data_queue

\* on_data raised before it had queued the text: logger.exception(...) and
\* the loop goes on.
CallbackRaised(c) ==
    /\ hPc' = [hPc EXCEPT ![c] = "check"]
    /\ UNCHANGED <<connSt, peerOpen, data_queue>>

\* One pass of the read loop with data: recv returns n bytes, m decoders
\* raise, on_data is invoked and raises or returns.
HandlerRecv(c, n, m, raises) ==
    /\ hPc[c] = "recv" /\ connSt[c] = "open"
    /\ n \in 1..Min(Len(wire[c]), RecvBuf)
    /\ wire' = [wire EXCEPT ![c] = SubSeq(@, n + 1, Len(@))]
    /\ decRaised' = [decRaised EXCEPT ![c] = m]
    /\ LET text == DecodeWith(SubSeq(wire[c], 1, n), m)
       IN IF raises
            THEN /\ calls' = [calls EXCEPT ![c] = Append(@, text)]
                 /\ CallbackRaised(c)
            ELSE /\ Put(text, c)
                 /\ hPc' = [hPc EXCEPT ![c] = "check"]
                 /\ UNCHANGED <<connSt, peerOpen>>
    /\ UNCHANGED <<socks, connSock, srvVars, ctlVars, accPc, accSock, accConn, stream,
                   wPc, wItem, wLines, wJ, wTs, wEntry, wErrors, logVars, relVars, viewVars,
                   cliVars, probe, mainVars, pollVars>>

\* One connection, its stream any byte sequence of up to MaxFallbackLen bytes.
HandlerInit ==
    /\ Serving(1)
    /\ calls = [c \in ConnIds |-> <<>>]
    /\ decRaised = [c \in ConnIds |-> 0]
    /\ \E b \in SeqsUpTo({10, 39, 65, 255}, MaxFallbackLen) :
          stream = [c \in ConnIds |-> IF c = 1 THEN b ELSE <<>>]
    /\ wire = stream

HandlerNext ==
    \/ \E c \in ConnIds : HandlerCheck(c) /\ UNCHANGED dataVars
    \/ \E c \in ConnIds : PeerClose(c) /\ UNCHANGED dataVars
    \/ \E c \in ConnIds : HandlerRecvEnd(c) /\ UNCHANGED dataVars
    \/ \E c \in ConnIds, n \in 1..MaxFallbackLen, m \in 0..3, raises \in BOOLEAN :
          HandlerRecv(c, n, m, raises)

SpecHandler == HandlerInit /\ [][HandlerNext]_vars

\* ------------------------------------------- the service and its relay
\* The texts of the callback invocations fed to the worker: "A\n", "A\nB\n".
ChunkTexts == { <<65, 10>>, <<65, 10, 66, 10>> }

TotalCalls == LET RECURSIVE Sum(_)
                  Sum(c) == IF c = 0 THEN 0 ELSE Len(calls[c]) + Sum(c - 1)
              IN Sum(MaxSources)

\* The handler of connection c invokes on_data(text, addr).
OnData(text, c, limit) ==
    /\ TotalCalls < limit
    /\ Put(text, c)
    /\ UNCHANGED <<listenerVars, cliVars, probe, mainVars, pollVars, stream, wire, decRaised,
                   wPc, wItem, wLines, wJ, wTs, wEntry, wErrors, logVars, relVars, viewVars>>

\* Midnight passes.
Tick ==
    /\ today < MaxDay
    /\ today' = today + 1
    /\ UNCHANGED <<listenerVars, cliVars, probe, mainVars, pollVars, ingVars, wrkVars, svc_last_date, svc_log_path, files,
                   fileExists, nAppended, writeFails, relVars, viewVars>>

\* Mutant of Deque: the first maxlen lines are kept.
Deque_First(f, maxlen) == SubSeq(f, 1, Min(Len(f), maxlen))

\* deque(f, maxlen): the lines of the file are appended in file order and a
\* full deque drops its leftmost line at each append, which leaves the last
\* maxlen lines of the file.
Deque(f, maxlen) == SubSeq(f, Len(f) - Min(Len(f), maxlen) + 1, Len(f))

\* last_lines = deque(f, maxlen=200)
LastLines(f) == Deque(f, TailMax)

\* ViewerBroadcastServer._accept_loop: conn, addr = self._sock.accept()
RelayAccept(v) ==
    /\ rPc = "accept"
    /\ vb_sock = "listening"
    /\ vSt[v] = "unused" /\ \A u \in ViewerIds : u < v => vSt[u] # "unused"
    /\ vSt' = [vSt EXCEPT ![v] = "open"]
    /\ vPeerOpen' = [vPeerOpen EXCEPT ![v] = TRUE]
    /\ rConn' = v
    /\ rPc' = "tail"
    /\ UNCHANGED <<listenerVars, cliVars, probe, mainVars, pollVars, ingVars, wrkVars, logVars, vb_clients, vb_log_path, rTail,
                   vbStopVars, vbLockVars, vRecv, snapN>>

\* _send_tail: if not self.log_path.exists(): return; read the last lines;
\* if not last_lines: return
RelayReadTail ==
    /\ rPc = "tail"
    /\ rTail' = IF fileExists[vb_log_path] THEN LastLines(files[vb_log_path]) ELSE <<>>
    /\ rPc' = IF fileExists[vb_log_path] /\ files[vb_log_path] # <<>> THEN "send" ELSE "register"
    /\ snapN' = [snapN EXCEPT ![rConn] = nAppended]
    /\ UNCHANGED <<listenerVars, cliVars, probe, mainVars, pollVars, ingVars, wrkVars, logVars, vb_clients, vb_log_path, rConn,
                   vbStopVars, vbLockVars, vSt, vPeerOpen, vRecv>>

\* conn.sendall(payload); a failure is ignored.
RelaySendTail ==
    /\ rPc = "send"
    /\ \/ vRecv' = [vRecv EXCEPT ![rConn] =
                      @ \o [i \in 1..Len(rTail) |-> [src |-> "tail", e |-> rTail[i]]]]
       \/ ~vPeerOpen[rConn] /\ UNCHANGED vRecv
    /\ rTail' = <<>>
    /\ rPc' = "register"
    /\ UNCHANGED <<listenerVars, cliVars, probe, mainVars, pollVars, ingVars, wrkVars, logVars, vb_clients, vb_log_path, rConn,
                   vbStopVars, vbLockVars, vSt, vPeerOpen, snapN>>

\* Mutant of RelayRegister: the append does not take the lock.
RelayRegister_NoLock ==
    /\ rPc = "register"
    /\ vb_clients' = Append(vb_clients, rConn)
    /\ rConn' = 0
    /\ rPc' = IF vb_running THEN "accept" ELSE "done"
    /\ UNCHANGED <<listenerVars, cliVars, probe, mainVars, pollVars, ingVars, wrkVars, logVars, vb_log_path, rTail, vbStopVars,
                   vbLockVars, viewVars>>

\* with self._lock: self._clients.append(conn), then the loop's test
\* 'while self._running.is_set()': the thread calls accept() again or ends.
RelayRegister ==
    /\ rPc = "register"
    /\ vb_lock = "free"
    /\ vb_clients' = Append(vb_clients, rConn)
    /\ rConn' = 0
    /\ rPc' = IF vb_running THEN "accept" ELSE "done"
    /\ UNCHANGED <<listenerVars, cliVars, probe, mainVars, pollVars, ingVars, wrkVars, logVars, vb_log_path, rTail, vbStopVars, vbLockVars,
                   viewVars>>

\* accept() on the socket stop() closed raises OSError (or self._sock is
\* None already and the call raises): the accept thread ends.
RelayAcceptError ==
    /\ rPc = "accept"
    /\ vb_sock = "closed"
    /\ rPc' = "done"
    /\ UNCHANGED <<listenerVars, cliVars, probe, mainVars, pollVars, ingVars, wrkVars, logVars, vb_clients, vb_log_path, rConn,
                   rTail, vbStopVars, vbLockVars, viewVars>>

\* ------------------------------------------ ViewerBroadcastServer.stop
\* self._running.clear()
RelayStopClear ==
    /\ vsPc = "idle"
    /\ vb_running' = FALSE
    /\ vsPc' = "close_sock"
    /\ UNCHANGED <<listenerVars, cliVars, probe, mainVars, pollVars, ingVars, wrkVars, logVars, vb_clients, vb_log_path, rPc,
                   rConn, rTail, vb_sock, vbLockVars, viewVars>>

\* self._sock.shutdown(); self._sock.close(); finally self._sock = None
RelayStopCloseSock ==
    /\ vsPc = "close_sock"
    /\ vb_sock' = "closed"
    /\ vsPc' = "close_clients"
    /\ UNCHANGED <<listenerVars, cliVars, probe, mainVars, pollVars, ingVars, wrkVars, logVars, vb_clients, vb_log_path, rPc,
                   rConn, rTail, vb_running, vbLockVars, viewVars>>

\* with self._lock: every conn of self._clients is shut down and closed;
\* self._clients.clear()
RelayStopCloseClients ==
    /\ vsPc = "close_clients"
    /\ vb_lock = "free"
    /\ vSt' = [v \in ViewerIds |-> IF v \in Range(vb_clients) THEN "closed" ELSE vSt[v]]
    /\ vb_clients' = <<>>
    /\ vsPc' = "join"
    /\ UNCHANGED <<listenerVars, cliVars, probe, mainVars, pollVars, ingVars, wrkVars, logVars, vb_log_path, rPc, rConn, rTail,
                   vb_running, vb_sock, vbLockVars, vPeerOpen, vRecv, snapN>>

\* if self._accept_thread and self._accept_thread.is_alive(): join(timeout=1.0);
\* the join returns when the thread has ended or the second is over.
RelayStopJoin ==
    /\ vsPc = "join"
    /\ vsPc' = "returned"
    /\ UNCHANGED <<listenerVars, cliVars, probe, mainVars, pollVars, ingVars, wrkVars, logVars, vb_clients, vb_log_path, rPc,
                   rConn, rTail, vb_running, vb_sock, vbLockVars, viewVars>>

RelayStopSteps ==
    \/ RelayStopClear
    \/ RelayStopCloseSock
    \/ RelayStopCloseClients
    \/ RelayStopJoin

\* The viewer goes away.
ViewerClose(v) ==
    /\ vSt[v] = "open" /\ vPeerOpen[v]
    /\ vPeerOpen' = [vPeerOpen EXCEPT ![v] = FALSE]
    /\ UNCHANGED <<listenerVars, cliVars, probe, mainVars, pollVars, ingVars, wrkVars, logVars, relVars, vSt, vRecv, snapN>>

\* The lines found in the log file of day 1 when the service starts.
OldLine(i) == [ts |-> 1, addr |-> 0, line |-> <<65>>, k |-> 0, j |-> 0, n |-> i]
OldLines(len) == [i \in 1..len |-> OldLine(i)]

\* A Running listener with MaxSources connections, the service started on
\* day 1 over a log file of that day holding one of PreLens lines (or no
\* file), the relay started without viewers.
ServiceStarted(PreLens) ==
    /\ RunningListener(MaxSources)
    /\ NoData /\ WorkerInit /\ RelayInit
    /\ today = 1 /\ svc_last_date = 1 /\ svc_log_path = 1
    /\ \E pre \in PreLens :
          /\ files = [d \in Days |-> IF d = 1 THEN OldLines(pre) ELSE <<>>]
          /\ nAppended = pre
          /\ \E ex \in BOOLEAN :
                /\ pre > 0 => ex
                /\ fileExists = [d \in Days |-> d = 1 /\ ex]
    /\ writeFails = 0

ServiceInit(PreLens) == ServiceStarted(PreLens) /\ NoClient

\* The worker on a writable log, within one day.
WorkerSteps ==
    \/ WorkerDequeue
    \/ WorkerStamp
    \/ WorkerWrite
    \/ WorkerBroadcast

\* The relay's accept thread, serving the viewers of V.
AcceptSteps(V) ==
    \/ \E v \in V : RelayAccept(v)
    \/ RelayReadTail
    \/ RelaySendTail
    \/ RelayRegister

\* The worker, fed by one connection, and the relay with viewers coming and
\* going.
RelayNext ==
    \/ \E text \in ChunkTexts : OnData(text, 1, RelayChunks)
    \/ WorkerSteps
    \/ AcceptSteps(ViewerIds)
    \/ \E v \in ViewerIds : ViewerClose(v)

\* No log file, or an empty one, when the service starts.
SpecRelay == ServiceInit({0}) /\ [][RelayNext]_vars

\* One viewer connecting while the worker logs.
TailNext ==
    \/ \E text \in ChunkTexts : OnData(text, 1, RelayChunks)
    \/ WorkerSteps
    \/ AcceptSteps({1})
    \/ \E v \in {1} : ViewerClose(v)

\* No log file, an empty one, or one of about TailMax lines when the service starts.
SpecTail == ServiceInit({0, TailMax - 1, TailMax, TailMax + 1}) /\ [][TailNext]_vars

\* The same over midnight: the clock advances and the worker rotates.
RotateNext ==
    \/ TailNext
    \/ Tick
    \/ WorkerRotate

SpecRotate == ServiceInit({0, 1}) /\ [][RotateNext]_vars

\* MaxSources connections feeding one worker, the log write failing at times;
\* viewer 1 is registered.
OrderInit == Serving(MaxSources) /\ NoData

OrderNext ==
    \/ \E c \in 1..MaxSources, text \in ChunkTexts : OnData(text, c, OrderChunks)
    \/ WorkerDequeue
    \/ WorkerStamp
    \/ WorkerWrite
    \/ WorkerWriteFail
    \/ WorkerBroadcast

SpecOrder == OrderInit /\ [][OrderNext]_vars

\* The relay stopped while viewers connect and the worker logs; the log file
\* of day 1 holds a line, or nothing, when the service starts.
RelayStopInit == ServiceInit({0, 1})

RelayStopNext ==
    \/ RelayNext
    \/ RelayAcceptError
    \/ RelayStopSteps

SpecRelayStop == RelayStopInit /\ [][RelayStopNext]_vars

\* The broadcast of one-line chunks taken statement by statement, against viewers connecting
\* and leaving and the relay's stop().
LockInit == ServiceInit({0})

LockNext ==
    \/ OnData(<<65, 10>>, 1, RelayChunks)
    \/ WorkerDequeue
    \/ WorkerStamp
    \/ WorkerWrite
    \/ BcastSteps
    \/ AcceptSteps(ViewerIds)
    \/ \E v \in ViewerIds : ViewerClose(v)
    \/ RelayAcceptError
    \/ RelayStopSteps

SpecLock == LockInit /\ [][LockNext]_vars

\* ------------------------------------------------------- SMDRViewer
\* The delays of the reconnect timers, in units of five seconds.
ReconnectDelay == 1
RetryDelay == 2

\* The rows _process_line adds for the lines es, read by the source by.
Rows(es, by) == [i \in 1..Len(es) |-> [e |-> es[i], by |-> by, mode |-> cMode]]

\* What no step of the viewer program changes.
svcSide == <<listenerVars, ingVars, wrkVars, logVars, cAuto, probe, mainVars, pollVars>>

\* SMDRViewer.__init__ with _load_existing_data: the lines of the log file
\* are displayed, last_position is its size, the poll timer runs.
ViewerStarted(auto) ==
    /\ cMode = "file" /\ cTimer = TRUE
    /\ cShown = IF fileExists[1] THEN Rows(files[1], "load") ELSE <<>>
    /\ cLastPos = IF fileExists[1] THEN Len(files[1]) ELSE 0
    /\ pPc = "idle" /\ current_size = 0
    /\ cSock = 0 /\ cRunning = FALSE /\ cThread = 0
    /\ cAuto = auto /\ cReconn = -1 /\ cEvents = <<>>
    /\ gPc = "idle" /\ gRet = "none"
    /\ nPc = [t \in NetThreads |-> "unborn"]
    /\ nBuf = [t \in NetThreads |-> <<>>]
    /\ nWhy = [t \in NetThreads |-> "none"]
    /\ cRead = [v \in ViewerIds |-> 0]
    /\ nConnects = 0 /\ sinceEnd = -1

\* _check_for_updates, on the timer or the file watcher: nothing in network
\* mode; else the lines after last_position are displayed.
Poll ==
    /\ gPc = "idle" /\ cTimer
    /\ cMode # "network"
    /\ fileExists[1] /\ Len(files[1]) > cLastPos
    /\ cShown' = cShown \o Rows(SubSeq(files[1], cLastPos + 1, Len(files[1])), "poll")
    /\ cLastPos' = Len(files[1])
    /\ UNCHANGED <<svcSide, relVars, viewVars, cMode, cTimer, cSock, cRunning, cThread,
                   cReconn, cEvents, gPc, gRet, nPc, nBuf, nWhy, cRead, nConnects, sinceEnd>>

\* socket.create_connection succeeds: the relay's accept thread takes the
\* connection as viewer v; the client switches to network mode, stops the
\* poll timer and starts a reader thread.
Connected(v) ==
    /\ nConnects < MaxConnects
    /\ vb_sock = "listening" /\ rPc = "accept"
    /\ vSt[v] = "unused" /\ \A u \in ViewerIds : u < v => vSt[u] # "unused"
    /\ vSt' = [vSt EXCEPT ![v] = "open"]
    /\ vPeerOpen' = [vPeerOpen EXCEPT ![v] = TRUE]
    /\ rConn' = v /\ rPc' = "tail"
    /\ cMode' = "network" /\ cTimer' = FALSE
    /\ cSock' = v /\ cRunning' = TRUE
    /\ cThread' = nConnects + 1
    /\ nPc' = [nPc EXCEPT ![nConnects + 1] = "recv"]
    /\ nConnects' = nConnects + 1
    /\ UNCHANGED <<svcSide, vb_clients, vb_log_path, rTail, vbStopVars, vbLockVars,
                   vRecv, snapN, cLastPos, cShown, cEvents, gPc, gRet, nBuf, nWhy, cRead,
                   sinceEnd>>

\* _start_network_client, from the menu, the shortcut or the launch prompt:
\* returns at once in network mode; the dialog is accepted and the
\* connection succeeds.
StartNetwork ==
    /\ gPc = "idle"
    /\ cMode # "network"
    /\ \E v \in ViewerIds : Connected(v)
    /\ UNCHANGED cReconn

\* _stop_network_client up to the join: _net_running is cleared, the socket
\* shut down and closed, _net_sock = None.
StopNetBegin(caller) ==
    /\ cMode = "network"
    /\ cRunning' = FALSE
    /\ vPeerOpen' = [v \in ViewerIds |-> IF v = cSock THEN FALSE ELSE vPeerOpen[v]]
    /\ cSock' = 0
    /\ gPc' = "stop_join" /\ gRet' = caller
    /\ UNCHANGED <<svcSide, relVars, vSt, vRecv, snapN, cMode, cLastPos, cShown, cTimer,
                   cThread, cReconn, nPc, nBuf, nWhy, cRead, nConnects, sinceEnd>>

\* The Disconnect menu entry.
UserStop ==
    /\ gPc = "idle"
    /\ StopNetBegin("user")
    /\ UNCHANGED cEvents

\* The reconnect timer _handle_network_disconnect leaves behind:
\* if self._auto_reconnect and not self._reconnect_timer: start(5000)
AfterDisconnect(timer) == IF cAuto /\ timer = -1 THEN ReconnectDelay ELSE timer

\* _net_thread.join(timeout=1.0) returns, the thread ended or not; then
\* connection_mode = "file", the watcher and the timer are started again,
\* and _handle_network_disconnect goes on after its call.
StopNetJoin ==
    /\ gPc = "stop_join"
    /\ cThread' = 0
    /\ cMode' = "file" /\ cTimer' = TRUE
    /\ cReconn' = IF gRet # "user" THEN AfterDisconnect(cReconn) ELSE cReconn
    /\ gPc' = "idle" /\ gRet' = "none"
    /\ UNCHANGED <<svcSide, relVars, viewVars, cLastPos, cShown, cSock, cRunning, cEvents,
                   nPc, nBuf, nWhy, cRead, nConnects, sinceEnd>>

\* _handle_network_disconnect, queued by a reader thread that ended.
HandleDisconnect ==
    /\ gPc = "idle"
    /\ cEvents # <<>>
    /\ cEvents' = Tail(cEvents)
    /\ IF cMode = "network"
         THEN StopNetBegin(Head(cEvents))
         ELSE /\ cReconn' = AfterDisconnect(cReconn)
              /\ UNCHANGED <<svcSide, relVars, viewVars, cMode, cLastPos, cShown, cTimer,
                             cSock, cRunning, cThread, gPc, gRet, nPc, nBuf, nWhy, cRead,
                             nConnects, sinceEnd>>

\* _attempt_reconnect, when the reconnect timer expires: the connection
\* succeeds, or fails and the next attempt is scheduled after ten seconds.
AttemptReconnect ==
    /\ gPc = "idle"
    /\ cReconn = 0
    /\ \/ /\ \E v \in ViewerIds : Connected(v)
          /\ cReconn' = -1
       \/ /\ cReconn' = IF cAuto THEN RetryDelay ELSE -1
          /\ UNCHANGED <<svcSide, relVars, viewVars, cMode, cLastPos, cShown, cTimer, cSock,
                         cRunning, cThread, cEvents, gPc, gRet, nPc, nBuf, nWhy, cRead,
                         nConnects, sinceEnd>>

\* A reader thread whose loop is at its end: _net_running is cleared, the
\* socket is gone, or the relay closed the connection and all was read.
LoopOver(t) ==
    /\ nPc[t] = "recv"
    /\ \/ ~cRunning
       \/ cSock = 0
       \/ vSt[cSock] = "closed" /\ Len(vRecv[cSock]) = cRead[cSock]

\* Five seconds pass. What takes a second at most has happened before: a
\* reconnect timer that is due has fired, the join has returned, a loop at
\* its end has ended and the queued calls have run.
TimePasses ==
    /\ cReconn > 0
    /\ gPc = "idle" /\ cEvents = <<>>
    /\ \A t \in NetThreads : ~LoopOver(t)
    /\ cReconn' = cReconn - 1
    /\ sinceEnd' = IF sinceEnd = -1 THEN -1 ELSE Min(sinceEnd + 1, RetryDelay)
    /\ UNCHANGED <<svcSide, relVars, viewVars, cMode, cLastPos, cShown, cTimer, cSock,
                   cRunning, cThread, cEvents, gPc, gRet, nPc, nBuf, nWhy, cRead, nConnects>>

\* The reader thread t leaves its loop: finally: QTimer.singleShot(0,
\* self._handle_network_disconnect)
NetEnd(t, why) ==
    /\ nPc' = [nPc EXCEPT ![t] = "done"]
    /\ nWhy' = [nWhy EXCEPT ![t] = why]
    /\ cEvents' = Append(cEvents, why)
    /\ sinceEnd' = IF why \in {"peer", "error"} THEN 0 ELSE sinceEnd
    /\ UNCHANGED <<svcSide, relVars, viewVars, cMode, cLastPos, cShown, cTimer, cSock,
                   cRunning, cThread, cReconn, gPc, gRet, nBuf, cRead, nConnects>>

\* _network_loop: while self._net_running.is_set(): data =
\* self._net_sock.recv(4096); no data ends the loop, and so does an error.
NetRecv(t) ==
    /\ nPc[t] = "recv"
    /\ IF ~cRunning THEN NetEnd(t, "stopped")
       ELSE IF cSock = 0 THEN NetEnd(t, "error")
       ELSE IF Len(vRecv[cSock]) > cRead[cSock]
         THEN \E n \in 1..(Len(vRecv[cSock]) - cRead[cSock]) :
                /\ nBuf' = [nBuf EXCEPT ![t] = SubSeq(vRecv[cSock], cRead[cSock] + 1,
                                                      cRead[cSock] + n)]
                /\ cRead' = [cRead EXCEPT ![cSock] = @ + n]
                /\ nPc' = [nPc EXCEPT ![t] = "deliver"]
                /\ UNCHANGED <<svcSide, relVars, viewVars, cMode, cLastPos, cShown, cTimer,
                               cSock, cRunning, cThread, cReconn, cEvents, gPc, gRet, nWhy,
                               nConnects, sinceEnd>>
         ELSE /\ vSt[cSock] = "closed"
              /\ NetEnd(t, "peer")

\* while "\n" in buffer: self._process_line(line.strip()); then recv again.
NetDeliver(t) ==
    /\ nPc[t] = "deliver"
    /\ IF nBuf[t] = <<>>
         THEN /\ nPc' = [nPc EXCEPT ![t] = "recv"]
              /\ UNCHANGED <<cShown, nBuf>>
         ELSE /\ cShown' = cShown \o Rows(<<Head(nBuf[t]).e>>, "net")
              /\ nBuf' = [nBuf EXCEPT ![t] = Tail(@)]
              /\ UNCHANGED nPc
    /\ UNCHANGED <<svcSide, relVars, viewVars, cMode, cLastPos, cTimer, cSock, cRunning,
                   cThread, cReconn, cEvents, gPc, gRet, nWhy, cRead, nConnects, sinceEnd>>

\* The viewer program, without auto-reconnect, switching between file mode
\* and network mode while the worker logs one-line chunks.
SwitchInit == ServiceStarted({0, 1}) /\ ViewerStarted(FALSE)

SwitchNext ==
    \/ OnData(<<65, 10>>, 1, RelayChunks)
    \/ WorkerSteps
    \/ RelayReadTail
    \/ RelaySendTail
    \/ RelayRegister
    \/ Poll
    \/ StartNetwork
    \/ UserStop
    \/ StopNetJoin
    \/ HandleDisconnect
    \/ \E t \in NetThreads : NetRecv(t)
    \/ \E t \in NetThreads : NetDeliver(t)

SpecSwitch == SwitchInit /\ [][SwitchNext]_vars

\* _check_for_updates in file mode, step by step. Up to the size check: the
\* log file exists and is the only SMDRdata*.log of its directory, so the
\* path stays; current_size = self.log_path.stat().st_size, and the file is
\* opened only if current_size > self.last_position.
PollCheck ==
    /\ gPc = "idle" /\ cTimer /\ pPc = "idle"
    /\ cMode # "network"
    /\ fileExists[1]
    /\ current_size' = Len(files[1])
    /\ pPc' = IF Len(files[1]) > cLastPos THEN "read" ELSE "idle"
    /\ UNCHANGED <<listenerVars, ingVars, wrkVars, logVars, probe, mainVars, relVars,
                   viewVars, cliVars>>

\* f.seek(self.last_position); for line in f: self._process_line(...): the
\* lines from last_position to the end the file has now are displayed; then
\* self.last_position = current_size.
PollRead ==
    /\ pPc = "read"
    /\ cShown' = cShown \o Rows(SubSeq(files[1], cLastPos + 1, Len(files[1])), "poll")
    /\ cLastPos' = current_size
    /\ pPc' = "idle"
    /\ UNCHANGED <<listenerVars, ingVars, wrkVars, logVars, probe, mainVars, relVars,
                   viewVars, cMode, cTimer, cSock, cRunning, cThread, cAuto, cReconn,
                   cEvents, gPc, gRet, nPc, nBuf, nWhy, cRead, nConnects, sinceEnd,
                   current_size>>

\* The viewer program in file mode beside the service: the worker appends
\* one-line chunks to the log file the viewer polls.
PollInit == ServiceStarted({0, 1}) /\ ViewerStarted(FALSE)

PollNext ==
    \/ OnData(<<65, 10>>, 1, PollChunks)
    \/ WorkerSteps
    \/ PollCheck
    \/ PollRead

SpecPoll == PollInit /\ [][PollNext]_vars

\* The viewer program with auto-reconnect beside a relay that may be
\* stopped; nothing is logged.
ReconnectInit == ServiceStarted({0}) /\ ViewerStarted(TRUE)

ReconnectNext ==
    \/ RelayReadTail
    \/ RelayRegister
    \/ RelayAcceptError
    \/ RelayStopSteps
    \/ StartNetwork
    \/ UserStop
    \/ StopNetJoin
    \/ HandleDisconnect
    \/ AttemptReconnect
    \/ TimePasses
    \/ \E t \in NetThreads : NetRecv(t)

SpecReconnect == ReconnectInit /\ [][ReconnectNext]_vars

\* The same from the state an ended network session leaves behind: the
\* viewer is back in file mode and a reconnect attempt is pending.
ViewerPending ==
    /\ cMode = "file" /\ cTimer = TRUE
    /\ cShown = <<>> /\ cLastPos = 0
    /\ pPc = "idle" /\ current_size = 0
    /\ cSock = 0 /\ cRunning = FALSE /\ cThread = 0
    /\ cAuto = TRUE /\ cReconn = ReconnectDelay /\ cEvents = <<>>
    /\ gPc = "idle" /\ gRet = "none"
    /\ nPc = [t \in NetThreads |-> "unborn"]
    /\ nBuf = [t \in NetThreads |-> <<>>]
    /\ nWhy = [t \in NetThreads |-> "none"]
    /\ cRead = [v \in ViewerIds |-> 0]
    /\ nConnects = 0 /\ sinceEnd = 0

PendingInit == ServiceStarted({0}) /\ ViewerPending

SpecPending == PendingInit /\ [][ReconnectNext]_vars

\* ------------------------------------ SMDRStandalone._show_config_dialog
\* The threads of a server object that the application has let go of: they
\* read and write that object only, and are followed no further.
LetGo(pc) == IF pc \in {"check", "call", "accept", "append", "recv"} THEN "done" ELSE pc

\* The dialog is accepted with port q: self.port = q; the configuration is
\* saved; if self.server: self.server.stop() begins.
ConfigStop(q) ==
    /\ ctlPc = "idle" /\ nCalls < MaxCalls - 1
    /\ nCalls' = nCalls + 1
    /\ ctlOld' = srv_sock
    /\ ctlWasRunning' = (srv_running /\ srv_sock # NoSock)
    /\ ctlPort' = q
    /\ ctlPc' = "stop_clear" /\ ctlRet' = "config_start"
    /\ result' = NoResult
    /\ UNCHANGED <<osVars, srvVars, thrVars, ctlNew>>

\* _start_server: self.server = SMDRServer(on_data=on_data), a new object
\* with the fields of __init__; self.server.start(self.port) raises in bind;
\* except Exception: the error is logged and shown in a message box.
ConfigStartFail ==
    /\ ctlPc = "config_start" /\ nCalls < MaxCalls
    /\ nCalls' = nCalls + 1
    /\ socks' = [socks EXCEPT ![nCalls + 1] = [st |-> "closed", port |-> 0]]
    /\ srv_sock' = NoSock /\ srv_port' = 7000 /\ srv_running' = FALSE
    /\ srv_accept_thread' = NoThread /\ srv_clients' = <<>>
    /\ accPc' = [t \in SockIds |-> LetGo(accPc[t])]
    /\ hPc' = [c \in ConnIds |-> LetGo(hPc[c])]
    /\ accSock' = [t \in SockIds |-> NoSock] /\ accConn' = [t \in SockIds |-> 0]
    /\ result' = [ok |-> FALSE, errPort |-> ctlPort, errCause |-> "bind"]
    /\ ctlPc' = "idle" /\ ctlRet' = "idle"
    /\ UNCHANGED <<connSt, connSock, peerOpen, ctlPort, ctlNew, ctlOld, ctlWasRunning>>

\* The same with a bind that succeeds: start() goes on with listen, its own
\* stop(), the installation of the socket and the accept thread.
ConfigStartOk ==
    /\ ctlPc = "config_start" /\ nCalls < MaxCalls
    /\ nCalls' = nCalls + 1
    /\ socks' = [socks EXCEPT ![nCalls + 1] = [st |-> "bound", port |-> ctlPort]]
    /\ srv_sock' = NoSock /\ srv_port' = 7000 /\ srv_running' = FALSE
    /\ srv_accept_thread' = NoThread /\ srv_clients' = <<>>
    /\ accPc' = [t \in SockIds |-> LetGo(accPc[t])]
    /\ hPc' = [c \in ConnIds |-> LetGo(hPc[c])]
    /\ accSock' = [t \in SockIds |-> NoSock] /\ accConn' = [t \in SockIds |-> 0]
    /\ ctlNew' = nCalls + 1 /\ ctlOld' = NoSock /\ ctlWasRunning' = FALSE
    /\ result' = NoResult
    /\ ctlPc' = "start_listen" /\ ctlRet' = "idle"
    /\ UNCHANGED <<connSt, connSock, peerOpen, ctlPort>>

\* The application with its server listening on port 1.
ConfigInit == RunningInit

ConfigNext ==
    \/ ListenerNext
    \/ \E q \in Ports : ConfigStop(q) /\ UNCHANGED dataVars
    \/ ConfigStartFail /\ UNCHANGED dataVars
    \/ ConfigStartOk /\ UNCHANGED dataVars

SpecConfig == ConfigInit /\ [][ConfigNext]_vars

\* ------------------------------------------------ SMDRService.main
\* Mutant of MainStartRelayFail: the error of the relay's start() is not
\* caught where it is raised; main()'s outer handler reports it and stops
\* the service.
MainStartRelayFail_Raises ==
    /\ svc_viewer_server = "unset"
    /\ svc_viewer_server' = "none"
    /\ svc_reported' = svc_reported + 1
    /\ svc_running' = FALSE
    /\ srv_running' = FALSE
    /\ UNCHANGED <<osVars, srv_sock, srv_port, srv_accept_thread, srv_clients, ctlVars,
                   thrVars, ingVars, wrkVars, logVars, relVars, viewVars, cliVars, probe, pollVars>>

\* self.viewer_server = ViewerBroadcastServer(...); self.viewer_server.start():
\* the relay binds, listens and starts its accept thread.
MainStartRelay ==
    /\ svc_viewer_server = "unset"
    /\ svc_viewer_server' = "relay"
    /\ vb_sock' = "listening" /\ vb_running' = TRUE /\ rPc' = "accept"
    /\ UNCHANGED <<listenerVars, ingVars, wrkVars, logVars, vb_clients, vb_log_path, rConn,
                   rTail, vsPc, vbLockVars, viewVars, cliVars, probe, pollVars, svc_reported,
                   svc_running>>

\* The relay's bind raises: except Exception: LogErrorMsg("Viewer broadcast
\* start failed ..."); self.viewer_server = None. main() goes on.
MainStartRelayFail ==
    /\ svc_viewer_server = "unset"
    /\ svc_viewer_server' = "none"
    /\ svc_reported' = svc_reported + 1
    /\ UNCHANGED <<listenerVars, ingVars, wrkVars, logVars, relVars, viewVars, cliVars,
                   probe, pollVars, svc_running>>

\* if self.viewer_server: is false, the broadcast is skipped; then the next
\* line of the chunk.
WorkerSkipBroadcast ==
    /\ wPc = "bcast" /\ svc_viewer_server = "none"
    /\ wLines' = Tail(wLines)
    /\ wEntry' = NoEntry
    /\ IF Tail(wLines) = <<>>
         THEN wPc' = "idle" /\ wItem' = NoItem /\ wJ' = 0
         ELSE wPc' = "write" /\ UNCHANGED <<wItem, wJ>>
    /\ UNCHANGED <<listenerVars, cliVars, probe, mainVars, pollVars, ingVars, data_queue, wTs, wErrors,
                   logVars, relVars, viewVars>>

\* main() after self.server.start(self.port): the listener runs and
\* connection 1 is accepted, its switch sending one of ChunkTexts; the relay
\* is constructed next, the worker thread is started after that.
MainInit ==
    /\ RunningListener(1)
    /\ calls = [c \in ConnIds |-> <<>>]
    /\ decRaised = [c \in ConnIds |-> 0]
    /\ \E b \in ChunkTexts : stream = [c \in ConnIds |-> IF c = 1 THEN b ELSE <<>>]
    /\ wire = stream
    /\ WorkerIdle /\ LogInit /\ NoClient
    /\ svc_viewer_server = "unset" /\ svc_reported = 0 /\ svc_running = TRUE
    /\ vb_clients = <<>> /\ vb_log_path = 1
    /\ rPc = "unborn" /\ rConn = 0 /\ rTail = <<>>
    /\ vb_running = FALSE /\ vb_sock = "none" /\ vsPc = "idle"
    /\ vb_lock = "free" /\ bSnap = <<>> /\ bI = 0 /\ bDead = {} /\ bAtLock = <<>>
    /\ vSt = [v \in ViewerIds |-> "unused"]
    /\ vPeerOpen = [v \in ViewerIds |-> FALSE]
    /\ vRecv = [v \in ViewerIds |-> <<>>]
    /\ snapN = [v \in ViewerIds |-> 0]

MainNext ==
    \/ MainStartRelay
    \/ MainStartRelayFail
    \/ \E c \in ConnIds : HandlerCheck(c) /\ UNCHANGED dataVars
    \/ \E c \in ConnIds : PeerClose(c) /\ UNCHANGED dataVars
    \/ \E c \in ConnIds : HandlerRecvEnd(c) /\ UNCHANGED dataVars
    \/ \E c \in ConnIds, n \in 1..2 : HandlerRecvData(c, n)
    \/ svc_viewer_server # "unset" /\ WorkerDequeue
    \/ WorkerStamp
    \/ WorkerWrite
    \/ WorkerBroadcast
    \/ WorkerSkipBroadcast
    \/ AcceptSteps({1})

SpecMain == MainInit /\ [][MainNext]_vars

\* ------------------------- SMDRService.SvcStop and the worker's loop
\* while self.running: the worker finds the flag set and enters the loop body.
WorkerPassedCheck ==
    /\ wPc = "idle" /\ svc_running
    /\ wPc' = "get"
    /\ UNCHANGED <<listenerVars, cliVars, probe, mainVars, pollVars, ingVars, data_queue, wItem, wLines,
                   wJ, wTs, wEntry, wErrors, logVars, relVars, viewVars>>

\* while self.running: the flag is clear and _process_queue returns (or the
\* process ends and takes its daemon thread with it).
WorkerExit ==
    /\ wPc = "idle" /\ ~svc_running
    /\ wPc' = "exited"
    /\ UNCHANGED <<listenerVars, cliVars, probe, mainVars, pollVars, ingVars, data_queue, wItem, wLines,
                   wJ, wTs, wEntry, wErrors, logVars, relVars, viewVars>>

\* if not self.data_queue.empty(): text, addr = self.data_queue.get(...);
\* self._log_data(text, addr) begins; else time.sleep(0.01) and the loop
\* test again.
WorkerGet ==
    /\ wPc = "get"
    /\ IF data_queue = <<>>
         THEN wPc' = "idle" /\ UNCHANGED <<wItem, data_queue, svc_last_date>>
         ELSE /\ wItem' = QueueGet(data_queue).item
              /\ data_queue' = QueueGet(data_queue).rest
              /\ IF today # svc_last_date
                   THEN svc_last_date' = today /\ wPc' = "rotate"
                   ELSE UNCHANGED svc_last_date /\ wPc' = "stamp"
    /\ UNCHANGED <<listenerVars, cliVars, probe, mainVars, pollVars, ingVars, wLines, wJ, wTs, wEntry,
                   wErrors, today, svc_log_path, files, fileExists, nAppended, writeFails,
                   relVars, viewVars>>

\* SvcStop: self.running = False; SetEvent(self.stop_event);
\* if self.server: self.server.stop() begins.
SvcStopSignal ==
    /\ svc_running /\ ctlPc = "idle" /\ nCalls < MaxCalls
    /\ svc_running' = FALSE
    /\ nCalls' = nCalls + 1
    /\ ctlPc' = "stop_clear" /\ ctlRet' = "svc_stop_relay"
    /\ result' = NoResult /\ ctlPort' = 0
    /\ UNCHANGED <<osVars, srvVars, thrVars, ctlNew, ctlOld, ctlWasRunning, ingVars, wrkVars,
                   logVars, relVars, viewVars, cliVars, probe, pollVars, svc_viewer_server,
                   svc_reported>>

\* SvcStop, after self.server.stop(): if self.viewer_server:
\* self.viewer_server.stop() begins with self._running.clear().
SvcStopRelay ==
    /\ ctlPc = "svc_stop_relay"
    /\ ctlPc' = "idle" /\ ctlRet' = "idle"
    /\ IF svc_viewer_server = "relay"
         THEN vb_running' = FALSE /\ vsPc' = "close_sock"
         ELSE UNCHANGED <<vb_running, vsPc>>
    /\ UNCHANGED <<osVars, srvVars, thrVars, ctlPort, ctlNew, ctlOld, ctlWasRunning, nCalls,
                   result, ingVars, wrkVars, logVars, vb_clients, vb_log_path, rPc, rConn,
                   rTail, vb_sock, vbLockVars, viewVars, cliVars, probe, mainVars, pollVars>>

\* The service running with one connection and one viewer; the switch sends
\* up to OrderChunks chunks until the service is asked to stop.
SvcStopInit == Serving(1) /\ NoData

SvcStopNext ==
    \/ \E text \in ChunkTexts : svc_running /\ OnData(text, 1, OrderChunks)
    \/ WorkerPassedCheck
    \/ WorkerExit
    \/ WorkerGet
    \/ WorkerStamp
    \/ WorkerWrite
    \/ WorkerBroadcast
    \/ SvcStopSignal
    \/ (StopClear \/ StopCloseSock \/ StopCloseClients \/ StopResetClients \/ StopJoin)
          /\ UNCHANGED dataVars
    \/ SvcStopRelay
    \/ RelayStopCloseSock
    \/ RelayStopCloseClients
    \/ RelayStopJoin
    \/ \E t \in SockIds : AccError(t) /\ UNCHANGED dataVars
    \/ \E c \in ConnIds : HandlerCheck(c) /\ UNCHANGED dataVars
    \/ \E c \in ConnIds : HandlerRecvEnd(c) /\ UNCHANGED dataVars
    \/ RelayAcceptError

SpecSvcStop == SvcStopInit /\ [][SvcStopNext]_vars

\* ------------------------------------- connections ending one by one
\* The peer of connection c resets it: the bytes not yet read are lost and
\* the pending or next recv raises ConnectionResetError, an OSError.
PeerReset(c) ==
    /\ connSt[c] = "open" /\ peerOpen[c]
    /\ peerOpen' = [peerOpen EXCEPT ![c] = FALSE]
    /\ wire' = [wire EXCEPT ![c] = <<>>]
    /\ UNCHANGED <<socks, connSt, connSock, srvVars, ctlVars, thrVars, stream, calls,
                   decRaised, wrkVars, logVars, relVars, viewVars, cliVars, probe, mainVars, pollVars>>

\* The switches of the scenario; switch c sends one line: "A\n", "B\n", ...
Switches == 1..MaxSources

\* A Running listener with connection 1 accepted; switch 2 connects later.
PeerEndInit ==
    /\ Serving(1)
    /\ calls = [c \in ConnIds |-> <<>>]
    /\ decRaised = [c \in ConnIds |-> 0]
    /\ stream = [c \in ConnIds |-> IF c \in Switches THEN <<64 + c, 10>> ELSE <<>>]
    /\ wire = stream

PeerEndNext ==
    \/ \E c \in Switches : Connect(c, 1) /\ UNCHANGED dataVars
    \/ \E c \in Switches : PeerClose(c) /\ UNCHANGED dataVars
    \/ \E c \in Switches : PeerReset(c)
    \/ \E t \in SockIds : AccCheck(t) /\ UNCHANGED dataVars
    \/ \E t \in SockIds : AccCall(t) /\ UNCHANGED dataVars
    \/ \E t \in SockIds, c \in Switches : AccAccept(t, c) /\ UNCHANGED dataVars
    \/ \E t \in SockIds : AccAppend(t) /\ UNCHANGED dataVars
    \/ \E c \in Switches : HandlerCheck(c) /\ UNCHANGED dataVars
    \/ \E c \in Switches : HandlerRecvEnd(c) /\ UNCHANGED dataVars
    \/ \E c \in Switches : HandlerRecvData(c, Len(wire[c]))

SpecPeerEnd == PeerEndInit /\ [][PeerEndNext]_vars

\* ------------------------------------------------------------------ claims
AcceptAlive(t) == t # NoThread /\ accPc[t] \in {"check", "call", "accept", "append"}

\* A step of the controlling thread that is a start() whose bind fails.
BindFailStep == ctlPc = "idle" /\ ctlPc' = "idle" /\ nCalls' = nCalls + 1

\* C1: a start(Q) whose bind fails raises an error naming Q and the cause and
\* changes nothing of the listener: port, listening socket, _running, accept
\* thread, client list and every accepted connection are as before (Running
\* stays Running, Stopped stays Stopped), and while the failure is the last
\* result of a Running listener its socket still listens on its port with a
\* live accept loop, so a later connection to P is accepted.
C1_FailedStartKeepsListener ==
    /\ [][BindFailStep =>
            /\ ~result'.ok /\ result'.errPort = ctlPort' /\ result'.errCause = "bind"
            /\ srv_port' = srv_port /\ srv_sock' = srv_sock
            /\ srv_running' = srv_running
            /\ srv_accept_thread' = srv_accept_thread
            /\ srv_clients' = srv_clients
            /\ accPc' = accPc /\ connSt' = connSt /\ hPc' = hPc
            /\ \A s \in SockIds \ {nCalls'} : socks'[s] = socks[s]]_vars
    /\ []((ctlPc = "idle" /\ ~result.ok /\ srv_running) =>
            /\ srv_sock # NoSock
            /\ socks[srv_sock] = [st |-> "listening", port |-> srv_port]
            /\ AcceptAlive(srv_accept_thread))
    /\ []((ctlPc = "idle" /\ ~result.ok /\ ~srv_running) =>
            srv_sock = NoSock /\ srv_accept_thread = NoThread)

\* Witness of C1: a Running listener whose last start() failed in bind, with a
\* connection it accepted still open.
C1_Witness ==
    /\ ctlPc = "idle" /\ ~result.ok /\ result.errCause = "bind"
    /\ srv_running /\ result.errPort # srv_port
    /\ \E c \in ConnIds : connSt[c] = "open" /\ c \in Range(srv_clients)

InStart ==
    \/ ctlPc \in {"start_listen", "start_install", "start_spawn"}
    \/ ctlPc \in {"stop_clear", "stop_sock", "stop_clients", "stop_reset", "stop_join"}
       /\ ctlRet # "idle"

\* C2: in a start(Q) on a Running listener the old listening socket is closed
\* only once the new one is bound and listening, and in every intermediate
\* state of start() the old or the new socket is listening.
C2_NeverWithoutBinding ==
    (InStart /\ ctlWasRunning) =>
        /\ \E s \in {ctlOld, ctlNew} : socks[s].st = "listening"
        /\ socks[ctlOld].st = "closed" => socks[ctlNew].st = "listening"

\* Witness of C2: inside start(), the old socket closed and the new one listening.
C2_Witness ==
    /\ ctlPc = "start_install" /\ ctlWasRunning
    /\ socks[ctlOld].st = "closed" /\ socks[ctlNew].st = "listening"

\* The non-empty lines of the whole stream of connection c.
StreamLines(c) == LogLines(Decode(stream[c]))

\* A text made of non-empty lines only, the last one terminated by \n.
IsLineText(t) == t # <<>> /\ t[Len(t)] = 10 /\ SplitLines(t) = LogLines(t)

\* The lines logged for connection c, in file order.
LoggedLines(c) ==
    LET own == SelectSeq(files[1], LAMBDA e : e.addr = c)
    IN [i \in 1..Len(own) |-> own[i].line]

C4_ChunkingInvisible ==
    \A c \in ConnIds :
        (wire[c] = <<>> /\ data_queue = <<>> /\ wPc = "idle" /\ writeFails = 0) =>
            LoggedLines(c) = StreamLines(c)

\* An entry that was received before another one on the same connection.
Before(a, b) == a.k < b.k \/ (a.k = b.k /\ a.j < b.j)
InOrder(es) ==
    \A p, q \in 1..Len(es) : (p < q /\ es[p].addr = es[q].addr) => Before(es[p], es[q])
LiveOf(v) ==
    LET live == SelectSeq(vRecv[v], LAMBDA m : m.src = "live")
    IN [i \in 1..Len(live) |-> live[i].e]
TailOf(v) ==
    LET tail == SelectSeq(vRecv[v], LAMBDA m : m.src = "tail")
    IN [i \in 1..Len(tail) |-> tail[i].e]

\* C5: the lines of one connection are in the log file, and in what each
\* viewer is sent live, in the order of their reception on that connection.
C5_PerConnectionOrder ==
    /\ \A d \in Days : InOrder(files[d])
    /\ \A v \in ViewerIds : InOrder(LiveOf(v))

\* Witness of C5: lines of two chunks of connection 1 are logged and sent with
\* a line of connection 2 between them.
C5_Witness ==
    \E p, q, r \in 1..Len(files[1]) :
        /\ p < q /\ q < r
        /\ files[1][p].addr = 1 /\ files[1][q].addr = 2 /\ files[1][r].addr = 1
        /\ files[1][p].k < files[1][r].k
        /\ LiveOf(1) = files[1]

AllEntries == UNION {Range(files[d]) : d \in Days}
\* The entries whose broadcast() call has returned.
Broadcasted == {e \in AllEntries : wPc = "bcast" => e # wEntry}
Registered(v) == v \in Range(vb_clients)

\* C6: a registered viewer has been sent, live, every line appended after its
\* tail was read.
C6_NoGap ==
    \A v \in ViewerIds : (Registered(v) /\ vPeerOpen[v]) =>
        \A e \in Broadcasted : e.n > snapN[v] => e \in Range(LiveOf(v))

\* C7: no line of a viewer's tail is also sent to it live.
C7_NoDuplicate ==
    \A v \in ViewerIds : Range(TailOf(v)) \cap Range(LiveOf(v)) = {}

\* The accept thread has finished _send_tail for the viewer.
Served(v) == Registered(v) \/ (rConn = v /\ rPc = "register")

\* C8: the tail sent on connect is the last min(200, n) lines of the n lines
\* the log file held when it was read, in file order (nothing for a missing
\* or empty file); it is sent before the viewer is registered and precedes
\* every live line.
C8_TailThenLive ==
    \A v \in ViewerIds :
        /\ Len(TailOf(v)) <= TailMax
        /\ (Served(v) /\ vPeerOpen[v]) => Len(TailOf(v)) = Min(TailMax, snapN[v])
        /\ \A i \in 1..Len(TailOf(v)) :
              TailOf(v)[i] = files[vb_log_path][snapN[v] - Len(TailOf(v)) + i]
        /\ \A i, j \in 1..Len(vRecv[v]) :
              (vRecv[v][i].src = "tail" /\ vRecv[v][j].src = "live") => i < j
        /\ (rConn = v /\ rPc \in {"tail", "send"}) => (~Registered(v) /\ vRecv[v] = <<>>)

\* Witness of C8: the file held more than 200 lines, the viewer was sent the
\* last 200 and then a live line.
C8_Witness ==
    \E v \in ViewerIds :
        /\ Registered(v) /\ snapN[v] > TailMax
        /\ Len(TailOf(v)) = TailMax /\ Len(LiveOf(v)) > 0

\* C9: the tail read for a new viewer is the tail of the service's current
\* log file.
C9_TailOfCurrentLog ==
    [][(rPc = "tail" /\ rPc' # "tail") =>
        rTail' = IF fileExists[svc_log_path] THEN LastLines(files[svc_log_path]) ELSE <<>>]_vars

\* C10: a broadcast removes and closes exactly the viewers whose send failed,
\* which are viewers that have gone; every other registered viewer is sent
\* the line and stays registered, in the same order; nothing is sent to a
\* viewer that is not registered and no error is raised.
C10_BroadcastIsolatesFailure ==
    [][(wPc = "bcast" /\ wPc' # "bcast") =>
        LET dead == Range(vb_clients) \ Range(vb_clients')
        IN /\ vb_clients' = SelectSeq(vb_clients, LAMBDA v : v \notin dead)
           /\ \A v \in ViewerIds :
                IF v \in dead
                  THEN ~vPeerOpen[v] /\ vSt'[v] = "closed" /\ vRecv'[v] = vRecv[v]
                  ELSE /\ vSt'[v] = vSt[v]
                       /\ vRecv'[v] = IF Registered(v)
                                        THEN Append(vRecv[v], [src |-> "live", e |-> wEntry])
                                        ELSE vRecv[v]
           /\ wErrors' = wErrors]_vars

\* Witness of C10: one viewer was removed by the broadcast of the latest line,
\* which another viewer was sent.
C10_Witness ==
    \E v, u \in ViewerIds :
        /\ vSt[v] = "closed" /\ ~Registered(v) /\ Registered(u)
        /\ wPc # "bcast" /\ nAppended > 1
        /\ \E e \in Range(LiveOf(u)) : e.n = nAppended
        /\ \E e \in Range(LiveOf(v)) : e.n = nAppended - 1
        /\ \A e \in Range(LiveOf(v)) : e.n < nAppended

\* The chunks (connection, invocation) the worker has finished.
Processed ==
    {ck \in UNION {{<<c, k>> : k \in 1..Len(calls[c])} : c \in ConnIds} :
        /\ \A i \in 1..Len(data_queue) :
              ~(data_queue[i].addr = ck[1] /\ data_queue[i].k = ck[2])
        /\ ~(wItem.addr = ck[1] /\ wItem.k = ck[2])}
\* Line j of chunk ck is in a log file / was sent live to viewer v.
IsLogged(ck, j) ==
    \E e \in AllEntries : e.addr = ck[1] /\ e.k = ck[2] /\ e.j = j
IsSentLive(v, ck, j) ==
    \E e \in Range(LiveOf(v)) : e.addr = ck[1] /\ e.k = ck[2] /\ e.j = j
\* The lines of finished chunks that are in no log file.
Unlogged ==
    UNION {{<<ck, j>> : j \in {i \in 1..Len(LogLines(calls[ck[1]][ck[2]])) : ~IsLogged(ck, i)}} :
            ck \in Processed}

\* C11: the line whose append to the log failed (in a finished chunk, the
\* first line that is not in the log) has been broadcast to the registered
\* viewers.
C11_FailedLineStillBroadcast ==
    \A x \in Unlogged :
        (\A i \in 1..(x[2] - 1) : IsLogged(x[1], i)) =>
            \A v \in ViewerIds : (Registered(v) /\ vPeerOpen[v]) => IsSentLive(v, x[1], x[2])

\* C12: a failed write is reported and loses only its own line: the lines of
\* finished chunks missing from the log are no more than the writes that failed.
C12_FailureLosesOneLine ==
    /\ wErrors = writeFails
    /\ Cardinality(Unlogged) <= writeFails

\* C13: a line written on the date of its own timestamp is appended to the
\* file of the local date at the moment of the write, and no other file is
\* appended to.
C13_WriteGoesToTodaysFile ==
    [][(nAppended' = nAppended + 1 /\ wTs = today) =>
         /\ Len(files'[today]) = Len(files[today]) + 1
         /\ \A d \in Days \ {today} : files'[d] = files[d]]_vars

\* C14: every chunk that recv returns yields exactly one text for the
\* callback, whatever decoders raise: the lossy UTF-8 text, else the latin-1
\* text, else str(data), else the fixed placeholder; the text is a sequence
\* of code points, the connection stays open and the read loop goes on.
C14_DecodeNeverRaises ==
    [][\A c \in ConnIds : wire'[c] # wire[c] =>
        LET chunk == SubSeq(wire[c], 1, Len(wire[c]) - Len(wire'[c]))
            text == calls'[c][Len(calls'[c])]
        IN /\ Len(calls'[c]) = Len(calls[c]) + 1
           /\ \A i \in 1..Len(text) : text[i] \in 0..1114111
           /\ decRaised'[c] = 0 => text = Decode(chunk)
           /\ decRaised'[c] = 1 => text = [i \in 1..Len(chunk) |-> chunk[i]]
           /\ decRaised'[c] = 2 => text = Repr(chunk)
           /\ decRaised'[c] = 3 => text = Placeholder
           /\ hPc'[c] = "check" /\ connSt'[c] = "open"]_vars

\* Witness of C14: the UTF-8 decode of the byte ff raised, the callback got
\* its latin-1 text, and the next chunk was read and passed on too.
C14_Witness ==
    /\ Len(calls[1]) = 2 /\ calls[1][1] = <<255>> /\ Len(data_queue) = 2

\* C15: a pass of the read loop whose callback raised (the text was not
\* queued) leaves the connection open and the handler in its loop, and every
\* chunk read, before or after, is passed to the callback.
C15_CallbackFailureIsolated ==
    [][\A c \in ConnIds :
        /\ (calls'[c] # calls[c] /\ data_queue' = data_queue) =>
              (hPc'[c] = "check" /\ connSt'[c] = "open" /\ peerOpen'[c] = peerOpen[c])
        /\ wire'[c] # wire[c] => Len(calls'[c]) = Len(calls[c]) + 1]_vars

\* Witness of C15: the callback raised on the first chunk and was invoked
\* again, and returned, on the second.
C15_Witness ==
    /\ Len(calls[1]) = 2 /\ Len(data_queue) = 1 /\ data_queue[1].k = 2

StopPcs == {"stop_clear", "stop_sock", "stop_clients", "stop_reset", "stop_join"}

\* C16: once stop() has returned (by itself, or inside start() before the new
\* socket is installed) no socket but the new one of that start() is bound
\* or listening and no accepted connection is open.
C16_StopClosesEverything ==
    (ctlPc \in {"idle", "start_install"} /\ ~srv_running) =>
        /\ \A s \in SockIds \ {ctlNew} : socks[s].st \notin {"bound", "listening"}
        /\ \A c \in ConnIds : connSt[c] # "open"

\* C17: no step of a stop() called on a Stopped listener (no socket, not
\* running, no accept thread) changes a socket, a connection or a field of
\* the listener.
C17_StopIdempotent ==
    [][(ctlPc \in StopPcs /\ ctlRet = "idle" /\ ctlPc' # ctlPc
        /\ srv_accept_thread = NoThread /\ srv_sock = NoSock) =>
            /\ socks' = socks /\ connSt' = connSt
            /\ srv_sock' = srv_sock /\ srv_port' = srv_port /\ srv_running' = srv_running
            /\ srv_accept_thread' = srv_accept_thread /\ srv_clients' = srv_clients]_vars

\* C18: when stop() has returned no socket of the listener is bound to a
\* port, so the listener's own earlier socket cannot make a start() on the
\* same port fail; this after any number of start() and stop() calls.
C18_StopReleasesPort ==
    (ctlPc = "idle" /\ ~srv_running) =>
        /\ OwnPorts = {}
        /\ srv_sock = NoSock
        /\ \A t \in SockIds : accSock[t] # NoSock => socks[accSock[t]].st = "closed"

\* Witness of C18: the listener ran on port 1 and stop() has returned.
C18_Witness ==
    /\ ctlPc = "idle" /\ ~srv_running /\ srv_port = 1 /\ nCalls = 2
    /\ socks[1] = [st |-> "closed", port |-> 0] /\ accPc[1] # "unborn"

\* C19: at most one accept loop is alive, and an accept thread only ever
\* waits on the socket of its own start().
C19_OneAcceptLoop ==
    /\ Cardinality({t \in SockIds : AcceptAlive(t)}) <= 1
    /\ \A t \in SockIds : accSock[t] \in {NoSock, t}

\* C20: once the relay's stop() has returned and its accept thread has ended,
\* the viewer list is empty and no viewer socket the relay accepted is open,
\* whatever the accept thread was doing with a viewer while stop() ran.
C20_StopClosesEveryViewer ==
    (vsPc = "returned" /\ rPc = "done") =>
        /\ vb_clients = <<>>
        /\ \A v \in ViewerIds : vSt[v] # "open"

\* The viewers whose socket was handed the entry e as a live line.
GotLive(recv, e) ==
    {v \in ViewerIds : \E i \in 1..Len(recv[v]) : recv[v][i] = [src |-> "live", e |-> e]}

\* C21: while broadcast() holds the relay lock nobody else changes the viewer
\* list, and when it releases the lock the line has been handed to exactly the
\* viewers that were registered when it took the lock, less those whose send
\* failed, which are exactly the ones removed from the list and closed.
C21_BroadcastUnderLock ==
    /\ [](vb_lock = "worker" => vb_clients = bAtLock /\ bSnap = bAtLock)
    /\ [][(wPc = "bcast_send" /\ wPc' # "bcast_send") =>
            /\ GotLive(vRecv', wEntry) = Range(bAtLock) \ bDead
            /\ vb_clients' = Without(bAtLock, bDead)
            /\ \A v \in bDead : vSt'[v] = "closed"]_vars

\* Witness of C21: a broadcast holds the lock in the middle of its loop while
\* the accept thread waits to register a second viewer and stop() waits to
\* close the clients.
C21_Witness ==
    /\ vb_lock = "worker" /\ bI = 2 /\ Len(bSnap) = 1
    /\ rPc = "register" /\ vsPc = "close_clients"

\* C22: every row displayed by a file poll was displayed in file mode and
\* every row displayed by a network reader thread in network mode, so the two
\* sources are never active together.
C22_OneModeActive ==
    \A i \in 1..Len(cShown) :
        /\ cShown[i].by = "poll" => cShown[i].mode = "file"
        /\ cShown[i].by = "net" => cShown[i].mode = "network"

\* Nothing is on its way to the table: the worker is idle with an empty
\* queue, the relay is not serving a new connection, no reader thread holds
\* lines, the socket has been read to its end and the poll has caught up.
Settled ==
    /\ wPc = "idle" /\ data_queue = <<>>
    /\ rPc = "accept" /\ gPc = "idle"
    /\ \A t \in NetThreads : nPc[t] # "deliver"
    /\ cMode = "network" => cSock # 0 /\ Len(vRecv[cSock]) = cRead[cSock]
    /\ cMode = "file" => cLastPos >= Len(files[1])

\* C23: whatever the switches between file mode and network mode, no log line
\* is displayed twice, and once nothing is on its way every line of the log
\* file is displayed.
C23_EachLineOnce ==
    /\ \A i, j \in 1..Len(cShown) : i # j => cShown[i].e # cShown[j].e
    /\ Settled => \A i \in 1..Len(files[1]) : \E j \in 1..Len(cShown) : cShown[j].e = files[1][i]

\* A step in which _handle_network_disconnect returns.
DisconnectHandled ==
    \/ /\ gPc = "idle" /\ cEvents # <<>> /\ cEvents' = Tail(cEvents) /\ cMode # "network"
       /\ Head(cEvents) \in {"peer", "error"}
    \/ gPc = "stop_join" /\ gRet \in {"peer", "error"} /\ gPc' = "idle"

\* A step in which _attempt_reconnect runs.
AttemptMade == cReconn = 0 /\ cReconn' # 0

\* C24: with auto-reconnect on, when _handle_network_disconnect returns after
\* a read loop ended through peer close or a read error the client is in file mode with its socket dropped and
\* the poll timer running and one reconnect attempt is pending, due in five
\* seconds; a failed attempt leaves one attempt pending, due in ten seconds;
\* and no attempt is made less than five seconds after such a loop end.
C24_ReconnectAfterDelay ==
    /\ [][DisconnectHandled =>
            /\ cMode' = "file" /\ cSock' = 0 /\ cTimer'
            /\ cReconn' = ReconnectDelay]_vars
    /\ [][(AttemptMade /\ nConnects' = nConnects) => cReconn' = RetryDelay]_vars
    /\ [][AttemptMade => (sinceEnd = -1 \/ sinceEnd >= ReconnectDelay)]_vars

\* The entries appended to the log after the first m, in the order of their
\* appending, less the one whose broadcast() call has not returned yet.
AppendedAfter(m) ==
    LET at(i) == CHOOSE e \in AllEntries : e.n = i
        all == [i \in 1..(nAppended - m) |-> at(m + i)]
    IN SelectSeq(all, LAMBDA e : e \in Broadcasted)

\* The viewers that stay connected without a send failure.
Staying == {v \in ViewerIds : Registered(v) /\ vPeerOpen[v]}

\* Connected taken as accepted by the relay: what was appended after the
\* viewer's tail was read was appended while it was connected, and is
\* received live, in order.
LiveSinceAccepted ==
    \A v \in Staying :
        SelectSeq(LiveOf(v), LAMBDA e : e.n > snapN[v]) = AppendedAfter(snapN[v])

\* Connected taken as registered in the viewer list: what was appended before
\* the viewer's tail was read was appended before it was connected, and is not
\* received live.
LiveSinceRegistered ==
    \A v \in Staying :
        /\ \A i \in 1..Len(LiveOf(v)) : LiveOf(v)[i].n > snapN[v]
        /\ \E m \in 0..nAppended : LiveOf(v) = AppendedAfter(m)

\* C25: a viewer that stays connected without a send failure receives live
\* exactly the entries appended to the log while it is connected, unchanged
\* and in order, under one at least of the two readings of connected
\* (accepted, registered).
C25_LiveIsWhatWasAppended == LiveSinceAccepted \/ LiveSinceRegistered

\* No accept thread and no connection handler thread is left running.
ThreadsEnded ==
    /\ \A t \in SockIds : accPc[t] \in {"unborn", "done"}
    /\ \A c \in ConnIds : hPc[c] \in {"none", "done"}

\* C26: when stop() has returned and the listener is not started again, the
\* accept thread and every connection handler thread end, their blocked
\* accept() and recv() being woken by the closing of the sockets.
C26_StopEndsThreads ==
    <>[](ctlPc = "idle" /\ ~srv_running) => <>[]ThreadsEnded

\* The worker is inside a file write or holds the relay lock in a send.
WorkerBusy == wPc = "write" \/ vb_lock = "worker"

\* C27: a handler with received bytes to hand over can always do so, whatever
\* the worker is doing with the file or the viewers, and no step of a
\* handler takes or waits for the relay lock.
C27_HandlerNeverWaits ==
    /\ [](\A c \in ConnIds :
            (hPc[c] = "recv" /\ connSt[c] = "open" /\ wire[c] # <<>>) =>
                ENABLED HandlerRecvData(c, 1))
    /\ [][hPc' # hPc => vb_lock' = vb_lock]_vars

\* Witness of C27: the worker holds the relay lock inside a send for the
\* first chunk while the handler has handed over a second chunk and has more
\* bytes to read.
C27_Witness ==
    /\ vb_lock = "worker" /\ bI = 1 /\ wItem.k = 1
    /\ Len(calls[1]) = 2 /\ Len(data_queue) = 1
    /\ hPc[1] = "recv" /\ wire[1] # <<>>


\* C28: is_port_available(p) returns False when p is bound by another socket
\* and True when it is free, its probe socket is closed on both outcomes, and
\* the call changes nothing of any listener.
C28_ProbeTellsBound ==
    [][probe' # probe =>
        /\ probe'.ok = (Holders(probe'.port) = {})
        /\ probe'.sock = "closed"
        /\ UNCHANGED listenerVars]_vars

\* C29: every line appended carries, in its stamp, the date of the file it
\* was appended to, wherever midnight falls between the rotation check, the
\* computation of the file name, the timestamp and the write.
C29_StampDateIsFileDate ==
    [][nAppended' = nAppended + 1 =>
        \A d \in Days : files'[d] # files[d] => wEntry'.ts = d]_vars

\* The two consistent states of the listener.
Running ==
    /\ srv_running
    /\ srv_sock # NoSock /\ socks[srv_sock].st = "listening"
    /\ {t \in SockIds : AcceptAlive(t)} = {srv_accept_thread}
    /\ srv_port = socks[srv_sock].port /\ srv_port # 0
Stopped ==
    /\ ~srv_running
    /\ srv_sock = NoSock
    /\ srv_accept_thread = NoThread /\ {t \in SockIds : AcceptAlive(t)} = {}
    /\ srv_clients = <<>>

\* C30: whenever no start() or stop() is in progress the listener is Running
\* (_running set, listening socket open, exactly one live accept thread, port
\* the socket's bound port and non-zero also after start(0)) or Stopped
\* (_running clear, no socket, no accept thread, empty client list); a call
\* takes it from Stopped to Running, from Running to Running by a rebind, or
\* from Running to Stopped.
C30_RunningOrStopped ==
    /\ [](ctlPc = "idle" => (Running \/ Stopped))
    /\ [][(ctlPc # "idle" /\ ctlPc' = "idle" /\ result'.ok) =>
            IF ctlRet = "idle" THEN Stopped' ELSE Running']_vars

\* The handler of connection c leaves its read loop in this step.
HandlerEnds(c) == hPc[c] = "recv" /\ hPc'[c] = "done"

\* C31: a zero-length read or an I/O error on one ingest connection ends only
\* that connection's handler, which closes its socket; nothing of the
\* listener, of its accept loop or of another connection changes, and
\* afterwards the accept loop still accepts and every other connection
\* still has its bytes read and passed on.
C31_OnlyThatConnectionEnds ==
    /\ [][\A c \in ConnIds : HandlerEnds(c) =>
            /\ connSt'[c] = "closed"
            /\ \A d \in ConnIds \ {c} :
                  /\ connSt'[d] = connSt[d] /\ hPc'[d] = hPc[d]
                  /\ wire'[d] = wire[d] /\ calls'[d] = calls[d]
            /\ socks' = socks /\ srvVars' = srvVars
            /\ accPc' = accPc /\ accSock' = accSock /\ data_queue' = data_queue]_vars
    /\ []((\E c \in ConnIds : hPc[c] = "done") =>
            /\ srv_running /\ socks[srv_sock].st = "listening"
            /\ AcceptAlive(srv_accept_thread)
            /\ \A t \in SockIds, d \in ConnIds :
                  (accPc[t] = "accept" /\ connSt[d] = "backlog") => ENABLED AccAccept(t, d)
            /\ \A d \in ConnIds :
                  (hPc[d] = "recv" /\ connSt[d] = "open" /\ wire[d] # <<>>) =>
                      ENABLED HandlerRecvData(d, 1))

\* Witness of C31: connection 1 was reset before anything was read from it
\* and its handler has ended; connection 2 is accepted, its line has been
\* read and passed on, and its handler waits for more.
C31_Witness ==
    /\ hPc[1] = "done" /\ connSt[1] = "closed" /\ calls[1] = <<>>
    /\ hPc[2] = "recv" /\ connSt[2] = "open" /\ calls[2] = << <<66, 10>> >>
    /\ srv_clients = <<1, 2>>

\* C32: when the relay's bind fails the service reports the failure and goes
\* on without a relay: nothing of the ingest listener changes, it stays
\* Running with its accept loop, the worker skips the broadcast and is never
\* held up by it, nothing is sent to a viewer, and every line received is in
\* the log once the worker has caught up.
C32_RunsWithoutRelay ==
    /\ [][(svc_viewer_server = "unset" /\ svc_viewer_server' = "none") =>
            /\ svc_reported' = svc_reported + 1
            /\ svc_running' /\ UNCHANGED listenerVars]_vars
    /\ [](svc_viewer_server = "none" =>
            /\ svc_running /\ srv_running
            /\ socks[srv_sock].st = "listening" /\ AcceptAlive(srv_accept_thread)
            /\ \A v \in ViewerIds : vRecv[v] = <<>>
            /\ wPc = "bcast" => ENABLED WorkerSkipBroadcast
            /\ (wire[1] = <<>> /\ data_queue = <<>> /\ wPc = "idle") =>
                  LoggedLines(1) = StreamLines(1))

\* Witness of C32: the relay could not be started and both lines of the
\* chunk "A\nB\n" are in the log.
C32_Witness ==
    /\ svc_viewer_server = "none" /\ svc_reported = 1
    /\ Len(files[1]) = 2 /\ wPc = "idle" /\ data_queue = <<>>

\* C33: a change of the configuration to a port that cannot be bound leaves
\* the listener that was working before it running, its socket listening.
C33_FailedChangeKeepsListener ==
    [][(ctlPc = "config_start" /\ ctlPc' = "idle" /\ ~result'.ok /\ ctlWasRunning) =>
        /\ srv_running'
        /\ socks'[ctlOld].st = "listening"]_vars

\* C34: the worker takes the chunks off the queue one at a time, the oldest
\* first, each once, and when it has left its loop after the service was
\* asked to stop no chunk is left in the queue.
C34_QueueDrained ==
    /\ [][data_queue' # data_queue =>
            \/ \E c \in ConnIds :
                  /\ Len(calls'[c]) = Len(calls[c]) + 1
                  /\ data_queue' = Append(data_queue,
                                          [text |-> calls'[c][Len(calls'[c])], addr |-> c,
                                           k |-> Len(calls'[c])])
            \/ /\ data_queue # <<>> /\ data_queue' = Tail(data_queue)
               /\ wItem' = Head(data_queue) /\ wItem = NoItem]_vars
    /\ [](wPc = "exited" => data_queue = <<>>)

\* The sockets the viewer program has connected and not closed, and its
\* reader threads that have not left _network_loop.
NetSockets == {v \in ViewerIds : vSt[v] # "unused" /\ vPeerOpen[v]}
NetReaders == {t \in NetThreads : nPc[t] \in {"recv", "deliver"}}

\* C35: the viewer has at most one network socket and at most one network
\* reader thread at any time, whatever the order of user connect, user
\* disconnect, disconnect handling and the firing of a reconnect timer.
C35_OneSocketOneReader ==
    /\ Cardinality(NetSockets) <= 1
    /\ Cardinality(NetReaders) <= 1

\* C36: disconnecting by hand does not lead to an automatic reconnect attempt.
\* As long as every network session so far was ended by the user's Disconnect
\* (no read loop has ended through peer close or a read error), no reconnect
\* timer is pending and none has fired.
C36_UserDisconnectStays == sinceEnd = -1 => cReconn = -1

\* How many rows of the table show line i of the log file.
TimesShown(i) == Cardinality({j \in 1..Len(cShown) : cShown[j].e = files[1][i]})

\* C37: in file mode, with the log path unchanged, last_position never
\* decreases, no line of the log file is displayed more than once and every
\* line before last_position is displayed exactly once, also when the writer
\* appends between the poll's size check and its read to end-of-file.
C37_PolledOnce ==
    [][/\ cLastPos' >= cLastPos
       /\ \A i \in 1..Len(files'[1]) :
             /\ TimesShown(i)' <= 1
             /\ i <= cLastPos' => TimesShown(i)' = 1]_vars

\* The ingest connections that are open on the listener's side.
OpenConns == {c \in ConnIds : connSt[c] = "open"}

\* C38: every entry of self._clients is an open connection, and outside the
\* accept loop's window between accept() and append the length of the list
\* is the number of open ingest connections.
C38_ClientListIsOpenConns ==
    /\ \A i \in 1..Len(srv_clients) : srv_clients[i] \in OpenConns
    /\ (\A t \in SockIds : accPc[t] # "append") => Len(srv_clients) = Cardinality(OpenConns)

====
